---- MODULE Spec2Model ----
(***************************************************************************)
(* Verification model of the supermarket backend's concurrency core:       *)
(*   - apps/products/services.py : decrease_stock / restore_stock          *)
(*   - apps/delivery/services.py : reserve_slot / release_slot /           *)
(*                                 emergency_block_slot /                  *)
(*                                 batch_create_slots                      *)
(*   - apps/orders/services.py   : place_order / update_order_status /     *)
(*                                 coupons                                 *)
(* The relational store is PostgreSQL at READ COMMITTED: a row lock taken  *)
(* by SELECT ... FOR UPDATE or by UPDATE is held until the outermost       *)
(* transaction.atomic block ends; a plain SELECT reads the committed row.  *)
(* The cache is Redis: get/set/incr/decr are atomic single operations and  *)
(* incr/decr raise ValueError on a missing key.                            *)
(***************************************************************************)
EXTENDS Integers, Sequences, FiniteSets, TLC

(* ------------------------------------------------------------------ *)
(* Bounds of the model                                                  *)
(* ------------------------------------------------------------------ *)
MaxInitQty == 2      \* initial durable quantity ranges over 0..MaxInitQty
MaxQty == 2          \* requested quantities range over 1..MaxQty
MaxCalls == 2        \* standalone stock calls started in one behaviour
MaxCacheInit == 2    \* an initially present cache entry holds 0..MaxCacheInit
MaxCapacity == 2     \* max_capacity of the slot ranges over 1..MaxCapacity
MaxSlotCalls == 4    \* slot calls started in one behaviour
MaxPlaceCalls == 1   \* place_order calls started in one behaviour
MaxStatusCalls == 3  \* update_order_status / mark_order_paid calls started
MaxLimit == 1        \* largest total_limit of the coupon
MaxOrderStock == 2   \* Stock.quantity of a product when the order service starts
MaxPrice == 3        \* Product.price ranges over 0..MaxPrice cents in DiscountSpec
MaxRaceQty == 3      \* initial durable quantity in DurableSpec ranges over 0..MaxRaceQty
NConcurrent == 3     \* calls racing on the durable path in DurableSpec
MaxDays == 2         \* batch_create_slots works on the dates 1..MaxDays
MaxBatchCalls == 2   \* batch_create_slots calls started in one behaviour

(* ------------------------------------------------------------------ *)
(* Program constants                                                    *)
(* ------------------------------------------------------------------ *)
OPTIMISTIC_LOCK_MAX_RETRIES == 3

NoOne == 0
P1 == 1
P2 == 2
Products == {P1, P2}
StockThreads == {1, 2}
SlotThreads == {1, 2}
OrderThreads == {1, 2}
Users == {1, 2}
couponCode == "SAVE"
DurableThreads == 1..NConcurrent
BatchThreads == {1, 2}
Dates == 1..MaxDays
Windows == {1, 2}           \* the (start_time, end_time) pairs a caller passes
StockCallProducts == {P1}   \* the stock row the standalone calls contend for

VARIABLES
    stock,        \* committed Stock row of each product: [exists, quantity, version]
    stockLock,    \* holder of each Stock row lock, NoOne when free
    pend,         \* per call: the Stock rows its open outer transaction has written
    cacheStock,   \* cache entry stock:{product_id} of each product: [present, val]
    th,           \* state of each decrease_stock / restore_stock call
    calls,        \* number of standalone calls started so far
    initQty,      \* history: durable quantity of each product at the start
    restoredSum,  \* history: per product, the amounts of committed restores
    restockedSum, \* history: per product, the amounts of committed restocks
    decreasedSum, \* history: per product, the amounts of committed decreases
    slot,         \* committed DeliverySlot row: [max_capacity, current_count, is_active]
    slotLock,     \* holder of the DeliverySlot row lock
    sth,          \* state of each reserve_slot / release_slot / emergency_block_slot call
    slotCalls,    \* number of slot calls started so far
    slotPassed,   \* whether the slot's date and start_time lie in the past
    initCount,    \* history: current_count of the slot at the start
    oc,           \* state of each place_order / update_order_status / mark_order_paid call
    orders,       \* committed Order rows with their OrderItem rows, in creation order
    orderLock,    \* holder of each Order row lock
    coupon,       \* committed Coupon row of the one coupon code
    couponLock,   \* holder of the Coupon row lock
    userCoupon,   \* per user, the used_at flags of the user's UserCoupon rows for the coupon
    couponCache,  \* cache entry coupon:quota:{code}: [present, val]
    rateKey,      \* users whose key ratelimit:order:{user_id} is present
    product,      \* Product rows: [is_active, price]
    placeCalls,   \* number of place_order calls started so far
    statusCalls,  \* number of status-changing calls started so far
    scn,          \* the requests the callers choose from: [users, itemLists, codes]
    cacheUp,      \* whether the cache server answers; FALSE: every cache call raises
    slotTable,    \* DeliverySlot rows in creation order; tx is the open transaction
                  \* that inserted the row, NoOne once committed
    slotException,\* per date, its DeliverySlotException row: none / open / blocked
    bth,          \* state of each batch_create_slots call
    batchCalls,   \* number of batch_create_slots calls started so far
    batchDone     \* history: the arguments of the committed batch_create_slots calls

slotVars == <<slot, slotLock, sth, slotCalls, slotPassed, initCount>>
dbStockVars == <<stock, stockLock, pend, cacheStock, initQty, restoredSum, restockedSum, decreasedSum>>
stockVars == <<dbStockVars, th, calls>>
orderVars == <<oc, orders, orderLock, coupon, couponLock, userCoupon, couponCache,
               rateKey, product, placeCalls, statusCalls, scn>>
batchVars == <<slotTable, slotException, bth, batchCalls, batchDone>>
\* what a decrease_stock / restore_stock step leaves alone
notStockCall == <<slotVars, orderVars, cacheUp, batchVars>>
\* what a reserve_slot / release_slot / emergency_block_slot step leaves alone
notSlot == <<stockVars, orderVars, cacheUp, batchVars>>
\* what an order call leaves alone
notOrder == <<slotVars, calls, cacheUp, batchVars>>
\* what a batch_create_slots step leaves alone
notBatch == <<stockVars, slotVars, orderVars, cacheUp>>

NoKey == [present |-> FALSE, val |-> 0]
Key(v) == [present |-> TRUE, val |-> v]
Row(q, v) == [exists |-> TRUE, quantity |-> q, version |-> v]
NoRow == [exists |-> FALSE, quantity |-> 0, version |-> 0]
Clean == [p \in Products |-> [dirty |-> FALSE, row |-> NoRow]]

\* in_tx: the call runs inside the caller's transaction.atomic block, so its
\* own atomic block is a savepoint and its writes commit with the caller's
IdleThread ==
    [pc |-> "idle", op |-> "none", product_id |-> P1, quantity |-> 0,
     use_redis |-> FALSE, in_tx |-> FALSE,
     attempt |-> 0, redis_decremented |-> FALSE, current_version |-> 0,
     synced |-> 0, result |-> "none", pending |-> "none",
     last_exception |-> "none", old_quantity |-> 0]

\* the Stock row of p as a statement of call t sees it: its own transaction's
\* write if there is one, else the committed row
ReadStock(t, p) == IF pend[t][p].dirty THEN pend[t][p].row ELSE stock[p]

(* ------------------------------------------------------------------ *)
(* _decrease_stock_db: the conditional UPDATE and the branch on its     *)
(* row count.  row is the Stock row as the statement sees it,           *)
(* current_version the version read after select_for_update.            *)
(* ------------------------------------------------------------------ *)
decrease_stock_db_nofloor(row, quantity, current_version) ==
    IF row.version = current_version
    THEN [outcome |-> "ok",
          row |-> [row EXCEPT !.quantity = @ - quantity, !.version = @ + 1]]
    ELSE [outcome |-> "VersionConflict", row |-> row]

decrease_stock_db_noversion(row, quantity, current_version) ==
    IF row.quantity >= quantity /\ row.version = current_version
    THEN [outcome |-> "ok", row |-> [row EXCEPT !.quantity = @ - quantity]]
    ELSE IF row.quantity < quantity
         THEN [outcome |-> "InsufficientStock", row |-> row]
         ELSE [outcome |-> "VersionConflict", row |-> row]

decrease_stock_db_lost(row, quantity, current_version) ==
    IF row.quantity >= quantity /\ row.version = current_version
    THEN [outcome |-> "ok", row |-> [row EXCEPT !.version = @ + 1]]
    ELSE IF row.quantity < quantity
         THEN [outcome |-> "InsufficientStock", row |-> row]
         ELSE [outcome |-> "VersionConflict", row |-> row]

decrease_stock_db(row, quantity, current_version) ==
    IF row.quantity >= quantity /\ row.version = current_version
    THEN [outcome |-> "ok",
          row |-> [row EXCEPT !.quantity = @ - quantity, !.version = @ + 1]]
    ELSE IF row.quantity < quantity
         THEN [outcome |-> "InsufficientStock", row |-> row]
         ELSE [outcome |-> "VersionConflict", row |-> row]

(* restore_stock's unconditional UPDATE *)
restore_stock_db_noversion(row, quantity) ==
    [row EXCEPT !.quantity = @ + quantity]

restore_stock_db(row, quantity) ==
    [row EXCEPT !.quantity = @ + quantity, !.version = @ + 1]

(* ------------------------------------------------------------------ *)
(* decrease_stock, called by thread t                                   *)
(* ------------------------------------------------------------------ *)
\* entry of a standalone call: quantity > 0 is the precondition; Step 1
\* runs only with use_redis
decrease_stock_begin(t) ==
    /\ th[t].pc = "idle"
    /\ calls < MaxCalls
    /\ \E p \in StockCallProducts, q \in 1..MaxQty, r \in BOOLEAN :
         th' = [th EXCEPT ![t] = [IdleThread EXCEPT
                   !.op = "decrease", !.product_id = p, !.quantity = q,
                   !.use_redis = r, !.pc = IF r THEN "ensure" ELSE "db_lock"]]
    /\ calls' = calls + 1
    /\ UNCHANGED <<dbStockVars>>
    /\ UNCHANGED notStockCall

\* _ensure_stock_in_redis: cache.get(redis_key) is None ?
ensure_stock_in_redis(t) ==
    /\ th[t].pc = "ensure"
    /\ th' = IF ~cacheUp
             THEN [th EXCEPT ![t].pc = "done", ![t].result = "ConnectionError"]
             ELSE [th EXCEPT ![t].pc = IF cacheStock[th[t].product_id].present
                                       THEN "decr" ELSE "sync_read"]
    /\ UNCHANGED <<dbStockVars, calls>>
    /\ UNCHANGED notStockCall

\* sync_stock_to_redis, first half: Stock.objects.get (a plain read);
\* Stock.DoesNotExist returns 0 without writing the cache
sync_stock_read(t) ==
    /\ th[t].pc \in {"sync_read", "r_sync_read"}
    /\ LET row == ReadStock(t, th[t].product_id)
       IN IF row.exists
          THEN th' = [th EXCEPT ![t].synced = row.quantity,
                                ![t].pc = IF th[t].pc = "sync_read"
                                          THEN "sync_set" ELSE "r_sync_set"]
          ELSE th' = [th EXCEPT ![t].pc = IF th[t].pc = "sync_read"
                                          THEN "decr" ELSE "done",
                                ![t].result = IF th[t].pc = "sync_read"
                                              THEN @ ELSE "ok"]
    /\ UNCHANGED <<dbStockVars, calls>>
    /\ UNCHANGED notStockCall

\* sync_stock_to_redis, second half: cache.set(redis_key, stock.quantity)
sync_stock_set(t) ==
    /\ th[t].pc \in {"sync_set", "r_sync_set"}
    /\ IF ~cacheUp
       THEN /\ th' = [th EXCEPT ![t].pc = "done", ![t].result = "ConnectionError"]
            /\ UNCHANGED cacheStock
       ELSE /\ cacheStock' = [cacheStock EXCEPT ![th[t].product_id] = Key(th[t].synced)]
            /\ th' = [th EXCEPT ![t].pc = IF th[t].pc = "sync_set" THEN "decr" ELSE "done",
                                ![t].result = IF th[t].pc = "sync_set" THEN @ ELSE "ok"]
    /\ UNCHANGED <<stock, stockLock, pend, initQty, restoredSum, restockedSum, decreasedSum, calls>>
    /\ UNCHANGED notStockCall

\* cache.decr(redis_key, quantity); a missing key raises ValueError, which
\* no except clause of decrease_stock catches
decrease_stock_decr(t) ==
    /\ th[t].pc = "decr"
    /\ LET p == th[t].product_id
       IN IF ~cacheUp
          THEN /\ th' = [th EXCEPT ![t].pc = "done", ![t].result = "ConnectionError"]
               /\ UNCHANGED cacheStock
          ELSE IF ~cacheStock[p].present
          THEN /\ th' = [th EXCEPT ![t].pc = "done", ![t].result = "ValueError"]
               /\ UNCHANGED cacheStock
          ELSE /\ cacheStock' = [cacheStock EXCEPT
                                   ![p] = Key(cacheStock[p].val - th[t].quantity)]
               /\ IF cacheStock[p].val - th[t].quantity < 0
                  THEN th' = [th EXCEPT ![t].pc = "undo"]
                  ELSE th' = [th EXCEPT ![t].pc = "db_lock",
                                        ![t].redis_decremented = TRUE]
    /\ UNCHANGED <<stock, stockLock, pend, initQty, restoredSum, restockedSum, decreasedSum, calls>>
    /\ UNCHANGED notStockCall

\* new_quantity < 0: cache.incr back, then raise InsufficientStockException
decrease_stock_undo(t) ==
    /\ th[t].pc = "undo"
    /\ LET p == th[t].product_id
       IN IF ~cacheUp
          THEN /\ th' = [th EXCEPT ![t].pc = "done", ![t].result = "ConnectionError"]
               /\ UNCHANGED cacheStock
          ELSE IF ~cacheStock[p].present
          THEN /\ th' = [th EXCEPT ![t].pc = "done", ![t].result = "ValueError"]
               /\ UNCHANGED cacheStock
          ELSE /\ cacheStock' = [cacheStock EXCEPT
                                   ![p] = Key(cacheStock[p].val + th[t].quantity)]
               /\ th' = [th EXCEPT ![t].pc = "done",
                                   ![t].result = "InsufficientStock"]
    /\ UNCHANGED <<stock, stockLock, pend, initQty, restoredSum, restockedSum, decreasedSum, calls>>
    /\ UNCHANGED notStockCall

\* where a durable failure goes: Step 3 when the cache was decremented
AfterFailure(t, exc) ==
    IF th[t].redis_decremented
    THEN [th EXCEPT ![t].pc = "rollback", ![t].pending = exc]
    ELSE [th EXCEPT ![t].pc = "done", ![t].pending = exc,
                    ![t].result = IF exc = "StockNotFound"
                                  THEN "InsufficientStock" ELSE exc]

\* the retry loop of decrease_stock, for attempt in range(max_retries): what
\* follows an attempt (attempt counts from 0) that ended with outcome
next_attempt_retry_all(outcome, attempt) ==
    IF outcome = "ok" THEN "return"
    ELSE IF attempt < OPTIMISTIC_LOCK_MAX_RETRIES - 1 THEN "retry"
    ELSE "raise"

next_attempt_one_more(outcome, attempt) ==
    IF outcome = "ok" THEN "return"
    ELSE IF outcome = "InsufficientStock" THEN "raise"
    ELSE IF attempt < OPTIMISTIC_LOCK_MAX_RETRIES THEN "retry"
    ELSE "raise"

next_attempt(outcome, attempt) ==
    IF outcome = "ok" THEN "return"
    ELSE IF outcome = "InsufficientStock" THEN "raise"
    ELSE IF attempt < OPTIMISTIC_LOCK_MAX_RETRIES - 1 THEN "retry"
    ELSE "raise"

\* the thread after a durable attempt that ended with outcome; last_exception
\* is assigned by the except StockUpdateConflictException clause only
EndAttempt(t, outcome) ==
    LET d == next_attempt(outcome, th[t].attempt)
        e == IF outcome = "VersionConflict" THEN outcome ELSE th[t].last_exception
    IN CASE d = "return" ->
              [th EXCEPT ![t].pc = "done", ![t].result = "ok", ![t].attempt = @ + 1]
         [] d = "retry" ->
              [th EXCEPT ![t].pc = "db_lock", ![t].attempt = @ + 1,
                         ![t].last_exception = e]
         [] OTHER ->
              [AfterFailure(t, outcome) EXCEPT ![t].attempt = @ + 1,
                                               ![t].last_exception = e]

\* _decrease_stock_db, first statement: select_for_update().get(); it waits
\* while another transaction holds the row lock
decrease_stock_db_lock(t) ==
    /\ th[t].pc = "db_lock"
    /\ th[t].attempt < OPTIMISTIC_LOCK_MAX_RETRIES
    /\ LET p == th[t].product_id
       IN /\ stockLock[p] \in {NoOne, t}
          /\ IF ReadStock(t, p).exists
             THEN /\ stockLock' = [stockLock EXCEPT ![p] = t]
                  /\ th' = [th EXCEPT ![t].pc = "db_update",
                               ![t].current_version = ReadStock(t, p).version]
             ELSE \* Stock.DoesNotExist -> "Product stock not found"
                  /\ th' = AfterFailure(t, "StockNotFound")
                  /\ UNCHANGED stockLock
    /\ UNCHANGED <<stock, pend, cacheStock, initQty, restoredSum, restockedSum, decreasedSum, calls>>
    /\ UNCHANGED notStockCall

\* _decrease_stock_db, the UPDATE and the end of its atomic block (a commit
\* for a standalone call, a savepoint release inside a caller's transaction);
\* then the retry loop of decrease_stock
decrease_stock_db_update(t) ==
    /\ th[t].pc = "db_update"
    /\ LET p == th[t].product_id
           r == decrease_stock_db(ReadStock(t, p), th[t].quantity,
                                  th[t].current_version)
       IN /\ stockLock[p] = t
          /\ IF th[t].in_tx
             THEN /\ pend' = IF r.outcome = "ok"
                             THEN [pend EXCEPT ![t][p] = [dirty |-> TRUE, row |-> r.row]]
                             ELSE pend
                  /\ UNCHANGED <<stock, stockLock, decreasedSum>>
             ELSE /\ stock' = [stock EXCEPT ![p] = r.row]
                  /\ stockLock' = [stockLock EXCEPT ![p] = NoOne]
                  /\ decreasedSum' = IF r.outcome = "ok"
                                     THEN [decreasedSum EXCEPT ![p] = @ + th[t].quantity]
                                     ELSE decreasedSum
                  /\ UNCHANGED pend
          /\ th' = EndAttempt(t, r.outcome)
    /\ UNCHANGED <<cacheStock, initQty, restoredSum, restockedSum, calls>>
    /\ UNCHANGED notStockCall

\* _decrease_stock_db, the branch that raises StockUpdateConflictException:
\* the UPDATE matched no row although the refreshed quantity suffices. The
\* row lock taken by select_for_update keeps the calls modelled here from
\* reaching it; this action takes the branch directly, standing for a writer
\* that does not honour the row lock. The atomic block rolls back: the row
\* lock of a standalone call is released, nothing is written.
decrease_stock_db_conflict(t) ==
    /\ th[t].pc = "db_update"
    /\ LET p == th[t].product_id
       IN /\ stockLock[p] = t
          /\ ReadStock(t, p).quantity >= th[t].quantity
          /\ stockLock' = IF th[t].in_tx THEN stockLock
                          ELSE [stockLock EXCEPT ![p] = NoOne]
    /\ th' = EndAttempt(t, "VersionConflict")
    /\ UNCHANGED <<stock, pend, decreasedSum, cacheStock, initQty, restoredSum, restockedSum, calls>>
    /\ UNCHANGED notStockCall

\* Step 3: cache.incr(redis_key, quantity), then re-raise
decrease_stock_rollback(t) ==
    /\ th[t].pc = "rollback"
    /\ LET p == th[t].product_id
       IN IF ~cacheUp
          THEN /\ th' = [th EXCEPT ![t].pc = "done", ![t].result = "ConnectionError"]
               /\ UNCHANGED cacheStock
          ELSE IF ~cacheStock[p].present
          THEN /\ th' = [th EXCEPT ![t].pc = "done", ![t].result = "ValueError"]
               /\ UNCHANGED cacheStock
          ELSE /\ cacheStock' = [cacheStock EXCEPT
                                   ![p] = Key(cacheStock[p].val + th[t].quantity)]
               /\ th' = [th EXCEPT ![t].pc = "done",
                                   ![t].result = IF th[t].pending = "StockNotFound"
                                                 THEN "InsufficientStock"
                                                 ELSE th[t].pending]
    /\ UNCHANGED <<stock, stockLock, pend, initQty, restoredSum, restockedSum, decreasedSum, calls>>
    /\ UNCHANGED notStockCall

(* ------------------------------------------------------------------ *)
(* restore_stock, called by thread t                                    *)
(* ------------------------------------------------------------------ *)
restore_stock_begin(t) ==
    /\ th[t].pc = "idle"
    /\ calls < MaxCalls
    /\ \E p \in StockCallProducts, q \in 1..MaxQty, r \in BOOLEAN :
         th' = [th EXCEPT ![t] = [IdleThread EXCEPT
                   !.op = "restore", !.product_id = p, !.quantity = q,
                   !.use_redis = r, !.pc = "r_update"]]
    /\ calls' = calls + 1
    /\ UNCHANGED <<dbStockVars>>
    /\ UNCHANGED notStockCall

\* an UPDATE of a row takes its row lock: it goes ahead when the lock is
\* free or held by its own transaction
update_takes_row_lock_nowait(holder, t) == TRUE

update_takes_row_lock(holder, t) == holder \in {NoOne, t}

\* the UPDATE takes the row lock, so it waits for another lock holder; no
\* row updated raises Stock.DoesNotExist
restore_stock_update(t) ==
    /\ th[t].pc = "r_update"
    /\ LET p == th[t].product_id
           row == ReadStock(t, p)
       IN /\ update_takes_row_lock(stockLock[p], t)
          /\ IF row.exists
             THEN /\ IF th[t].in_tx
                     THEN /\ pend' = [pend EXCEPT ![t][p] =
                                [dirty |-> TRUE,
                                 row |-> restore_stock_db(row, th[t].quantity)]]
                          /\ stockLock' = [stockLock EXCEPT ![p] = t]
                          /\ UNCHANGED <<stock, restoredSum, restockedSum>>
                     ELSE /\ stock' = [stock EXCEPT
                                ![p] = restore_stock_db(row, th[t].quantity)]
                          /\ restoredSum' = [restoredSum EXCEPT ![p] = @ + th[t].quantity]
                          /\ UNCHANGED restockedSum
                          /\ UNCHANGED <<pend, stockLock>>
                  /\ th' = [th EXCEPT
                        ![t].pc = IF th[t].use_redis THEN "r_incr" ELSE "done",
                        ![t].result = IF th[t].use_redis THEN @ ELSE "ok"]
             ELSE /\ th' = [th EXCEPT ![t].pc = "done",
                                      ![t].result = "StockDoesNotExist"]
                  /\ UNCHANGED <<stock, restoredSum, restockedSum, pend, stockLock>>
    /\ UNCHANGED <<cacheStock, initQty, decreasedSum, calls>>
    /\ UNCHANGED notStockCall

\* cache.incr(redis_key, quantity); ValueError -> sync_stock_to_redis
restore_stock_incr(t) ==
    /\ th[t].pc = "r_incr"
    /\ LET p == th[t].product_id
       IN IF ~cacheUp
          THEN /\ th' = [th EXCEPT ![t].pc = "done", ![t].result = "ConnectionError"]
               /\ UNCHANGED cacheStock
          ELSE IF cacheStock[p].present
          THEN /\ cacheStock' = [cacheStock EXCEPT
                                   ![p] = Key(cacheStock[p].val + th[t].quantity)]
               /\ th' = [th EXCEPT ![t].pc = "done", ![t].result = "ok"]
          ELSE /\ th' = [th EXCEPT ![t].pc = "r_sync_read"]
               /\ UNCHANGED cacheStock
    /\ UNCHANGED <<stock, stockLock, pend, initQty, restoredSum, restockedSum, decreasedSum, calls>>
    /\ UNCHANGED notStockCall

(* ------------------------------------------------------------------ *)
(* restock_product (apps/admin/services.py), called by thread t         *)
(* ------------------------------------------------------------------ *)
\* the UPDATE of restock_product: filter(version=stock.version).update(
\* quantity=stock.quantity + quantity, version=stock.version + 1), the
\* values of stock being those of the instance read under the lock
restock_db_overwrite(row, old_quantity, current_version, quantity) ==
    IF row.version = current_version
    THEN [updated |-> 1,
          row |-> [row EXCEPT !.quantity = quantity, !.version = current_version + 1]]
    ELSE [updated |-> 0, row |-> row]

restock_db_noversion(row, old_quantity, current_version, quantity) ==
    IF row.version = current_version
    THEN [updated |-> 1, row |-> [row EXCEPT !.quantity = old_quantity + quantity]]
    ELSE [updated |-> 0, row |-> row]

restock_db(row, old_quantity, current_version, quantity) ==
    IF row.version = current_version
    THEN [updated |-> 1,
          row |-> [row EXCEPT !.quantity = old_quantity + quantity,
                              !.version = current_version + 1]]
    ELSE [updated |-> 0, row |-> row]

\* entry: quantity > 0 is the precondition (quantity <= 0 raises ValueError)
restock_product_begin(t) ==
    /\ th[t].pc = "idle"
    /\ calls < MaxCalls
    /\ \E p \in StockCallProducts, q \in 1..MaxQty :
         th' = [th EXCEPT ![t] = [IdleThread EXCEPT
                   !.op = "restock", !.product_id = p, !.quantity = q,
                   !.pc = "k_lock"]]
    /\ calls' = calls + 1
    /\ UNCHANGED <<dbStockVars>>
    /\ UNCHANGED notStockCall

\* Stock.objects.select_for_update().get(product_id=...): waits for the row
\* lock; Stock.DoesNotExist is re-raised
restock_product_lock(t) ==
    /\ th[t].pc = "k_lock"
    /\ LET p == th[t].product_id
       IN /\ stockLock[p] \in {NoOne, t}
          /\ IF stock[p].exists
             THEN /\ stockLock' = [stockLock EXCEPT ![p] = t]
                  /\ th' = [th EXCEPT ![t].pc = "k_update",
                                      ![t].current_version = stock[p].version,
                                      ![t].old_quantity = stock[p].quantity]
             ELSE /\ th' = [th EXCEPT ![t].pc = "done",
                                      ![t].result = "StockDoesNotExist"]
                  /\ UNCHANGED stockLock
    /\ UNCHANGED <<stock, pend, cacheStock, initQty, restoredSum, restockedSum,
                   decreasedSum, calls>>
    /\ UNCHANGED notStockCall

\* the UPDATE, the end of the atomic block (COMMIT, or ROLLBACK after
\* ValueError("Stock update conflict, please retry")); a commit schedules
\* _update_redis_on_commit
restock_product_update(t) ==
    /\ th[t].pc = "k_update"
    /\ LET p == th[t].product_id
           r == restock_db(stock[p], th[t].old_quantity, th[t].current_version,
                           th[t].quantity)
       IN /\ stockLock[p] = t
          /\ stockLock' = [stockLock EXCEPT ![p] = NoOne]
          /\ IF r.updated = 1
             THEN /\ stock' = [stock EXCEPT ![p] = r.row]
                  /\ restockedSum' = [restockedSum EXCEPT ![p] = @ + th[t].quantity]
                  /\ th' = [th EXCEPT ![t].pc = "k_cache",
                                      ![t].synced = th[t].old_quantity + th[t].quantity]
             ELSE /\ th' = [th EXCEPT ![t].pc = "done", ![t].result = "ValueError"]
                  /\ UNCHANGED <<stock, restockedSum>>
    /\ UNCHANGED <<pend, cacheStock, initQty, restoredSum, decreasedSum, calls>>
    /\ UNCHANGED notStockCall

\* _update_redis_on_commit: cache.set(redis_key, new_quantity); any exception
\* of the cache is logged and swallowed
restock_product_on_commit(t) ==
    /\ th[t].pc = "k_cache"
    /\ cacheStock' = IF cacheUp
                     THEN [cacheStock EXCEPT ![th[t].product_id] = Key(th[t].synced)]
                     ELSE cacheStock
    /\ th' = [th EXCEPT ![t].pc = "done", ![t].result = "ok"]
    /\ UNCHANGED <<stock, stockLock, pend, initQty, restoredSum, restockedSum,
                   decreasedSum, calls>>
    /\ UNCHANGED notStockCall

\* a standalone call has returned or raised; the thread serves the next request
call_return(t) ==
    /\ th[t].pc = "done"
    /\ ~th[t].in_tx
    /\ th' = [th EXCEPT ![t] = IdleThread]
    /\ UNCHANGED <<dbStockVars, calls>>
    /\ UNCHANGED notStockCall

(* ------------------------------------------------------------------ *)
(* Delivery slots: apps/delivery/services.py                            *)
(* ------------------------------------------------------------------ *)
IdleSlotCall ==
    [pc |-> "idle", op |-> "none",
     slot |-> [max_capacity |-> 0, current_count |-> 0, is_active |-> TRUE],
     blocked_before |-> FALSE, result |-> "none"]

\* DeliverySlot.is_full
is_full_offbyone(s) == s.current_count + 1 >= s.max_capacity

is_full(s) == s.current_count >= s.max_capacity

\* reserve_slot: filter(current_count__lt=F("max_capacity")).update(current_count + 1)
reserve_slot_update(row) ==
    IF row.current_count < row.max_capacity
    THEN [updated |-> 1, row |-> [row EXCEPT !.current_count = @ + 1]]
    ELSE [updated |-> 0, row |-> row]

\* release_slot: filter(current_count__gt=0).update(current_count - 1)
release_slot_update_unguarded(row) == [row EXCEPT !.current_count = @ - 1]

release_slot_update(row) ==
    IF row.current_count > 0
    THEN [row EXCEPT !.current_count = @ - 1]
    ELSE row

\* emergency_block_slot: slot.is_active = False; slot.save() writes every
\* field of the instance read under the lock
emergency_block_save_clear(row, instance) ==
    [row EXCEPT !.max_capacity = instance.max_capacity,
                !.current_count = 0,
                !.is_active = FALSE]

emergency_block_save(row, instance) ==
    [row EXCEPT !.max_capacity = instance.max_capacity,
                !.current_count = instance.current_count,
                !.is_active = FALSE]

slot_call_begin(t) ==
    /\ sth[t].pc = "idle"
    /\ slotCalls < MaxSlotCalls
    /\ \E o \in {"reserve", "release", "block"} :
         sth' = [sth EXCEPT ![t] = [IdleSlotCall EXCEPT !.op = o, !.pc = "lock"]]
    /\ slotCalls' = slotCalls + 1
    /\ UNCHANGED <<slot, slotLock, slotPassed, initCount>>
    /\ UNCHANGED notSlot

\* DeliverySlot.objects.select_for_update().get(id=slot_id)
slot_lock(t) ==
    /\ sth[t].pc = "lock"
    /\ slotLock = NoOne
    /\ slotLock' = t
    /\ sth' = [sth EXCEPT ![t].pc = "locked", ![t].slot = slot,
                          ![t].blocked_before = ~slot.is_active]
    /\ UNCHANGED <<slot, slotCalls, slotPassed, initCount>>
    /\ UNCHANGED notSlot

\* reserve_slot after the lock: has_passed, is_full, the conditional
\* update, and the end of the transaction
reserve_slot(t) ==
    /\ sth[t].pc = "locked" /\ sth[t].op = "reserve"
    /\ slotLock = t
    /\ slotLock' = NoOne
    /\ IF slotPassed
       THEN /\ sth' = [sth EXCEPT ![t].pc = "done", ![t].result = "SlotExpired"]
            /\ UNCHANGED slot
       ELSE IF is_full(sth[t].slot)
       THEN /\ sth' = [sth EXCEPT ![t].pc = "done", ![t].result = "SlotFull"]
            /\ UNCHANGED slot
       ELSE LET u == reserve_slot_update(slot)
            IN /\ slot' = u.row
               /\ sth' = [sth EXCEPT ![t].pc = "done",
                            ![t].result = IF u.updated = 0 THEN "SlotFull" ELSE "ok",
                            ![t].slot = u.row]
    /\ UNCHANGED <<slotCalls, slotPassed, initCount>>
    /\ UNCHANGED notSlot

release_slot(t) ==
    /\ sth[t].pc = "locked" /\ sth[t].op = "release"
    /\ slotLock = t
    /\ slotLock' = NoOne
    /\ slot' = release_slot_update(slot)
    /\ sth' = [sth EXCEPT ![t].pc = "done", ![t].result = "ok",
                          ![t].slot = release_slot_update(slot)]
    /\ UNCHANGED <<slotCalls, slotPassed, initCount>>
    /\ UNCHANGED notSlot

emergency_block_slot(t) ==
    /\ sth[t].pc = "locked" /\ sth[t].op = "block"
    /\ slotLock = t
    /\ slotLock' = NoOne
    /\ slot' = emergency_block_save(slot, sth[t].slot)
    /\ sth' = [sth EXCEPT ![t].pc = "done", ![t].result = "ok"]
    /\ UNCHANGED <<slotCalls, slotPassed, initCount>>
    /\ UNCHANGED notSlot

slot_call_return(t) ==
    /\ sth[t].pc = "done"
    /\ sth' = [sth EXCEPT ![t] = IdleSlotCall]
    /\ UNCHANGED <<slot, slotLock, slotCalls, slotPassed, initCount>>
    /\ UNCHANGED notSlot

\* the clock passes the slot's date and start_time (DeliverySlot.has_passed)
slot_time_passes ==
    /\ ~slotPassed
    /\ slotPassed' = TRUE
    /\ UNCHANGED <<slot, slotLock, sth, slotCalls, initCount>>
    /\ UNCHANGED notSlot

(* ------------------------------------------------------------------ *)
(* Batch creation of delivery slots: batch_create_slots                 *)
(* ------------------------------------------------------------------ *)
BatchArgs(start_date, days, time_slots, capacity) ==
    [start_date |-> start_date, days |-> days,
     time_slots |-> time_slots, capacity |-> capacity]

IdleBatchCall ==
    [pc |-> "idle", args |-> BatchArgs(1, 0, <<>>, 1), i |-> 0, j |-> 1,
     created |-> <<>>, again |-> FALSE]

SlotRow(date, window, max_capacity, current_count, is_active, tx) ==
    [date |-> date, window |-> window, max_capacity |-> max_capacity,
     current_count |-> current_count, is_active |-> is_active, tx |-> tx]

\* the rows of one (date, start_time, end_time) a transaction can see
\* or is kept waiting by
SlotsOf(table, date, window) ==
    {k \in 1..Len(table) : table[k].date = date /\ table[k].window = window}

\* DeliverySlotException.objects.filter(date=slot_date, is_blocked=True).exists()
is_blocked_date(date) == slotException[date] = "blocked"

\* DeliverySlot.objects.get_or_create(date, start_time, end_time, defaults):
\* the row of the key when there is one, otherwise a new row with the
\* defaults max_capacity = capacity, current_count = 0, is_active = True
get_or_create_insert(table, date, window, capacity, t) ==
    [created |-> TRUE,
     table |-> Append(table, SlotRow(date, window, capacity, 0, TRUE, t))]

get_or_create(table, date, window, capacity, t) ==
    IF SlotsOf(table, date, window) # {}
    THEN [created |-> FALSE, table |-> table]
    ELSE [created |-> TRUE,
          table |-> Append(table, SlotRow(date, window, capacity, 0, TRUE, t))]

\* a call starts; its dates start_date .. start_date + days - 1 are the
\* first days of Dates and its time windows are in ascending order
batch_call_begin(t) ==
    /\ bth[t].pc = "idle"
    /\ batchCalls < MaxBatchCalls
    /\ \E start_date \in {1} : \E days \in 1..MaxDays :
       \E time_slots \in {<<1>>, <<1, 2>>} : \E capacity \in {MaxCapacity} :
         LET a == BatchArgs(start_date, days, time_slots, capacity)
         IN bth' = [bth EXCEPT ![t] = [IdleBatchCall EXCEPT
                       !.pc = "day", !.args = a, !.again = a \in batchDone]]
    /\ batchCalls' = batchCalls + 1
    /\ UNCHANGED <<slotTable, slotException, batchDone>>
    /\ UNCHANGED notBatch

\* for i in range(days): the date is skipped when a blocking exception exists
batch_day(t) ==
    /\ bth[t].pc = "day"
    /\ IF bth[t].i >= bth[t].args.days
       THEN bth' = [bth EXCEPT ![t].pc = "commit"]
       ELSE IF is_blocked_date(bth[t].args.start_date + bth[t].i)
       THEN bth' = [bth EXCEPT ![t].i = @ + 1]
       ELSE bth' = [bth EXCEPT ![t].pc = "slot", ![t].j = 1]
    /\ UNCHANGED <<slotTable, slotException, batchCalls, batchDone>>
    /\ UNCHANGED notBatch

\* for start_str, end_str in time_slots: get_or_create of one slot. An
\* uncommitted row of the key, inserted by another transaction, keeps the
\* INSERT waiting on the unique index until that transaction ends.
batch_get_or_create(t) ==
    /\ bth[t].pc = "slot"
    /\ LET slot_date == bth[t].args.start_date + bth[t].i
           window == bth[t].args.time_slots[bth[t].j]
           r == get_or_create(slotTable, slot_date, window, bth[t].args.capacity, t)
           last == bth[t].j = Len(bth[t].args.time_slots)
       IN /\ \A k \in SlotsOf(slotTable, slot_date, window) :
                slotTable[k].tx \in {NoOne, t}
          /\ slotTable' = r.table
          /\ bth' = [bth EXCEPT
                       ![t].created = IF r.created
                                      THEN Append(@, <<slot_date, window>>) ELSE @,
                       ![t].j = IF last THEN 1 ELSE @ + 1,
                       ![t].i = IF last THEN @ + 1 ELSE @,
                       ![t].pc = IF last THEN "day" ELSE "slot"]
    /\ UNCHANGED <<slotException, batchCalls, batchDone>>
    /\ UNCHANGED notBatch

\* the end of @transaction.atomic: the inserted rows are committed
batch_commit(t) ==
    /\ bth[t].pc = "commit"
    /\ slotTable' = [k \in 1..Len(slotTable) |->
                       IF slotTable[k].tx = t
                       THEN [slotTable[k] EXCEPT !.tx = NoOne] ELSE slotTable[k]]
    /\ batchDone' = batchDone \cup {bth[t].args}
    /\ bth' = [bth EXCEPT ![t].pc = "done"]
    /\ UNCHANGED <<slotException, batchCalls>>
    /\ UNCHANGED notBatch

batch_call_return(t) ==
    /\ bth[t].pc = "done"
    /\ bth' = [bth EXCEPT ![t] = IdleBatchCall]
    /\ UNCHANGED <<slotTable, slotException, batchCalls, batchDone>>
    /\ UNCHANGED notBatch

(* ------------------------------------------------------------------ *)
(* Orders and coupons: apps/orders/services.py                          *)
(* ------------------------------------------------------------------ *)
Item(p, q) == [product_id |-> p, quantity |-> q]

\* VALID_STATUS_TRANSITIONS, as the set of (current, target) pairs
VALID_STATUS_TRANSITIONS_reopen ==
    {<<"PENDING", "PAID">>, <<"PENDING", "CANCELLED">>,
     <<"PAID", "SHIPPED">>, <<"PAID", "REFUNDED">>,
     <<"SHIPPED", "REFUNDED">>, <<"CANCELLED", "PENDING">>}

VALID_STATUS_TRANSITIONS_cancel_paid ==
    {<<"PENDING", "PAID">>, <<"PENDING", "CANCELLED">>,
     <<"PAID", "SHIPPED">>, <<"PAID", "REFUNDED">>,
     <<"SHIPPED", "REFUNDED">>, <<"PAID", "CANCELLED">>}

VALID_STATUS_TRANSITIONS ==
    {<<"PENDING", "PAID">>, <<"PENDING", "CANCELLED">>,
     <<"PAID", "SHIPPED">>, <<"PAID", "REFUNDED">>,
     <<"SHIPPED", "REFUNDED">>}

STATUSES_REQUIRING_STOCK_RESTORE_cancel_only == {"CANCELLED"}

STATUSES_REQUIRING_STOCK_RESTORE == {"CANCELLED", "REFUNDED"}

Statuses == {"PENDING", "PAID", "SHIPPED", "CANCELLED", "REFUNDED"}

\* sorted(items, key=lambda x: str(x.product_id)): a stable sort
RECURSIVE InsertItem(_, _)
InsertItem(sorted, x) ==
    IF sorted = <<>> THEN <<x>>
    ELSE IF Head(sorted).product_id <= x.product_id
         THEN <<Head(sorted)>> \o InsertItem(Tail(sorted), x)
         ELSE <<x>> \o sorted

RECURSIVE SortItems(_)
SortItems(items) ==
    IF items = <<>> THEN <<>>
    ELSE InsertItem(SortItems(SubSeq(items, 1, Len(items) - 1)), items[Len(items)])

sorted_items_unsorted(items) == items

sorted_items(items) == SortItems(items)

\* the quantity an order's line items hold of product p
RECURSIVE ItemQty(_, _)
ItemQty(items, p) ==
    IF items = <<>> THEN 0
    ELSE (IF Head(items).product_id = p THEN Head(items).quantity ELSE 0)
         + ItemQty(Tail(items), p)

(* Money.  Prices, subtotals, min_purchase_amount and discount_value are
   DecimalField(decimal_places=2) values, kept here as integers in
   hundredths (cents, or hundredths of a percent).  calculate_discount works
   in exact Decimal arithmetic: subtotal * (discount_value / 100) has up to
   six decimal places, so its result is kept in units of 10^-6, that is
   1/10000 of a cent. *)
InFine(cents) == cents * 10000

\* saving a Decimal into a decimal_places=2 column: quantize, ROUND_HALF_EVEN
quantize(fine) ==
    LET q == fine \div 10000
        r == fine % 10000
    IN IF r > 5000 \/ (r = 5000 /\ q % 2 = 1) THEN q + 1 ELSE q

calculate_discount_unclamped(c, subtotal) ==
    IF subtotal < c.min_purchase_amount
    THEN [error |-> TRUE, discount |-> 0]
    ELSE [error |-> FALSE,
          discount |-> IF c.discount_type = "PERCENTAGE"
                       THEN subtotal * c.discount_value
                       ELSE InFine(c.discount_value)]

\* calculate_discount(coupon, subtotal): raises MinimumPurchaseNotMetException
\* or returns min(discount, subtotal)
calculate_discount(c, subtotal) ==
    IF subtotal < c.min_purchase_amount
    THEN [error |-> TRUE, discount |-> 0]
    ELSE LET d == IF c.discount_type = "PERCENTAGE"
                  THEN subtotal * c.discount_value
                  ELSE InFine(c.discount_value)
         IN [error |-> FALSE,
             discount |-> IF d < InFine(subtotal) THEN d ELSE InFine(subtotal)]

\* total_amount = max(subtotal - discount_amount, Decimal("0.00"))
total_amount(subtotal, discount) ==
    IF InFine(subtotal) - discount > 0 THEN InFine(subtotal) - discount ELSE 0

NoCoupon ==
    [is_active |-> FALSE, window |-> "in", total_limit |-> 0, used_count |-> 0,
     discount_type |-> "FIXED_AMOUNT", discount_value |-> 0,
     min_purchase_amount |-> 0]

IdleOrderCall ==
    [pc |-> "idle", op |-> "none", user |-> 1, items |-> <<>>, sorted |-> <<>>,
     idx |-> 1, coupon_code |-> "", coupon |-> NoCoupon, subtotal |-> 0,
     discount |-> 0, order_id |-> 0, new_status |-> "none", result |-> "none"]

\* the call of decrease_stock / restore_stock made inside the caller's
\* transaction.atomic block (use_redis is left at its default, True)
nested_call_autocommit(op, item) ==
    [IdleThread EXCEPT !.op = op, !.product_id = item.product_id,
        !.quantity = item.quantity, !.use_redis = TRUE, !.in_tx = FALSE,
        !.pc = IF op = "decrease" THEN "ensure" ELSE "r_update"]

nested_call(op, item) ==
    [IdleThread EXCEPT !.op = op, !.product_id = item.product_id,
        !.quantity = item.quantity, !.use_redis = TRUE, !.in_tx = TRUE,
        !.pc = IF op = "decrease" THEN "ensure" ELSE "r_update"]

\* the row locks call t holds are released when its transaction ends
ReleaseStockLocks(t) == [p \in Products |-> IF stockLock[p] = t THEN NoOne ELSE stockLock[p]]
ReleaseOrderLocks(t) == [o \in 1..Len(orderLock) |-> IF orderLock[o] = t THEN NoOne ELSE orderLock[o]]

\* COMMIT: the transaction's Stock writes become the committed rows
CommitStock(t) == [p \in Products |-> IF pend[t][p].dirty THEN pend[t][p].row ELSE stock[p]]

\* an exception leaves the transaction.atomic block: ROLLBACK
Rollback(t, exc) ==
    /\ pend' = [pend EXCEPT ![t] = Clean]
    /\ stockLock' = ReleaseStockLocks(t)
    /\ orderLock' = ReleaseOrderLocks(t)
    /\ couponLock' = IF couponLock = t THEN NoOne ELSE couponLock
    /\ th' = [th EXCEPT ![t] = IdleThread]
    /\ oc' = [oc EXCEPT ![t].pc = "done", ![t].result = exc]
    /\ UNCHANGED <<stock, orders, coupon, userCoupon, initQty, restoredSum, restockedSum, decreasedSum>>

(* ---- place_order; a worker takes a request when it is idle or has
        answered the previous one ---- *)
place_order_begin(t) ==
    /\ oc[t].pc \in {"idle", "done"}
    /\ placeCalls < MaxPlaceCalls
    /\ \E u \in scn.users, its \in scn.itemLists, code \in scn.codes :
         oc' = [oc EXCEPT ![t] = [IdleOrderCall EXCEPT
                  !.op = "place_order", !.user = u, !.items = its,
                  !.coupon_code = code,
                  !.pc = IF its = <<>> THEN "done" ELSE "rate",
                  !.result = IF its = <<>> THEN "ValueError" ELSE "none"]]
    /\ placeCalls' = placeCalls + 1
    /\ UNCHANGED <<dbStockVars, th, orders, orderLock, coupon, couponLock,
                   userCoupon, couponCache, rateKey, product, statusCalls, scn>>
    /\ UNCHANGED notOrder

\* check_order_rate_limit: cache.add(redis_key, 1, timeout=...)
cache_add_overwrite(keys, user) == [is_allowed |-> TRUE, keys |-> keys \cup {user}]

\* cache.add: SET ... NX, one atomic command of the cache server
cache_add(keys, user) == [is_allowed |-> user \notin keys, keys |-> keys \cup {user}]

check_order_rate_limit(t) ==
    /\ oc[t].pc = "rate"
    /\ LET r == cache_add(rateKey, oc[t].user)
       IN /\ rateKey' = r.keys
          /\ IF ~r.is_allowed
             THEN oc' = [oc EXCEPT ![t].pc = "done", ![t].result = "RateLimitExceeded"]
             ELSE oc' = [oc EXCEPT ![t].pc = IF oc[t].coupon_code = ""
                                               THEN "item" ELSE "validate",
                                     ![t].sorted = sorted_items(oc[t].items)]
    /\ UNCHANGED <<dbStockVars, th, orders, orderLock, coupon, couponLock,
                   userCoupon, couponCache, product, placeCalls, statusCalls, scn>>
    /\ UNCHANGED notOrder

\* validate_coupon, checks 1 to 3: Coupon.objects.get(code=...), is_active,
\* the validity window
validate_coupon(t) ==
    /\ oc[t].pc = "validate"
    /\ LET fail(e) == oc' = [oc EXCEPT ![t].pc = "done", ![t].result = e]
       IN IF oc[t].coupon_code # couponCode
          THEN fail("CouponNotFound")
          ELSE IF ~coupon.is_active \/ coupon.window # "in"
          THEN fail("CouponExpired")
          ELSE oc' = [oc EXCEPT ![t].coupon = coupon,
                                ![t].pc = IF coupon.total_limit > 0
                                          THEN "validate_quota" ELSE "validate_used"]
    /\ UNCHANGED <<dbStockVars, th, orders, orderLock, coupon, couponLock,
                   userCoupon, couponCache, rateKey, product, placeCalls,
                   statusCalls, scn>>
    /\ UNCHANGED notOrder

\* validate_coupon, check 4: cache.get(redis_key), then the used_count of the
\* row read in check 1
validate_coupon_quota(t) ==
    /\ oc[t].pc = "validate_quota"
    /\ IF couponCache.present /\ couponCache.val <= 0
       THEN oc' = [oc EXCEPT ![t].pc = "done", ![t].result = "CouponQuotaExceeded"]
       ELSE IF oc[t].coupon.used_count >= oc[t].coupon.total_limit
       THEN oc' = [oc EXCEPT ![t].pc = "validate_quota_sync"]
       ELSE oc' = [oc EXCEPT ![t].pc = "validate_used"]
    /\ UNCHANGED <<dbStockVars, th, orders, orderLock, coupon, couponLock,
                   userCoupon, couponCache, rateKey, product, placeCalls,
                   statusCalls, scn>>
    /\ UNCHANGED notOrder

\* validate_coupon, check 4: cache.set(redis_key, 0), then raise
validate_coupon_quota_sync(t) ==
    /\ oc[t].pc = "validate_quota_sync"
    /\ couponCache' = Key(0)
    /\ oc' = [oc EXCEPT ![t].pc = "done", ![t].result = "CouponQuotaExceeded"]
    /\ UNCHANGED <<dbStockVars, th, orders, orderLock, coupon, couponLock,
                   userCoupon, rateKey, product, placeCalls, statusCalls, scn>>
    /\ UNCHANGED notOrder

\* UserCoupon.objects.filter(user, coupon, used_at__isnull=False).exists(),
\* rows being the used_at flags of the rows of one (user, coupon) pair
user_coupon_exists(rows) == rows # <<>>

used_at_isnull_False(rows) == \E i \in 1..Len(rows) : rows[i]

\* UserCoupon.objects.update_or_create(user, coupon, defaults={"used_at": now}):
\* the row of the pair gets used_at set, and is created when there is none
update_or_create_insert(rows) == Append(rows, TRUE)

update_or_create(rows) ==
    IF rows = <<>> THEN <<TRUE>> ELSE [i \in 1..Len(rows) |-> TRUE]

\* validate_coupon, check 5: UserCoupon row with used_at set
validate_coupon_used(t) ==
    /\ oc[t].pc = "validate_used"
    /\ IF used_at_isnull_False(userCoupon[oc[t].user])
       THEN oc' = [oc EXCEPT ![t].pc = "done", ![t].result = "CouponAlreadyUsed"]
       ELSE oc' = [oc EXCEPT ![t].pc = "item"]
    /\ UNCHANGED <<dbStockVars, th, orders, orderLock, coupon, couponLock,
                   userCoupon, couponCache, rateKey, product, placeCalls,
                   statusCalls, scn>>
    /\ UNCHANGED notOrder

\* the loop over sorted_items: Product.objects.get(id, is_active=True), then
\* the call of decrease_stock
place_order_item(t) ==
    /\ oc[t].pc = "item"
    /\ oc[t].idx <= Len(oc[t].sorted)
    /\ LET it == oc[t].sorted[oc[t].idx]
       IN IF product[it.product_id].is_active
          THEN /\ th' = [th EXCEPT ![t] = nested_call("decrease", it)]
               /\ oc' = [oc EXCEPT ![t].pc = "in_decrease"]
               /\ UNCHANGED <<pend, stockLock, orderLock, couponLock>>
          ELSE Rollback(t, "ProductDoesNotExist")
    /\ UNCHANGED <<stock, cacheStock, initQty, restoredSum, restockedSum, decreasedSum, orders,
                   coupon, userCoupon, couponCache, rateKey, product, placeCalls,
                   statusCalls, scn>>
    /\ UNCHANGED notOrder

\* decrease_stock has returned or raised
place_order_item_done(t) ==
    /\ oc[t].pc = "in_decrease"
    /\ th[t].pc = "done"
    /\ LET it == oc[t].sorted[oc[t].idx]
       IN IF th[t].result = "ok"
          THEN /\ oc' = [oc EXCEPT ![t].pc = "item", ![t].idx = @ + 1,
                            ![t].subtotal = @ + product[it.product_id].price * it.quantity]
               /\ th' = [th EXCEPT ![t] = IdleThread]
               /\ UNCHANGED <<pend, stockLock, orderLock, couponLock>>
          ELSE Rollback(t, th[t].result)
    /\ UNCHANGED <<stock, cacheStock, initQty, restoredSum, restockedSum, decreasedSum, orders,
                   coupon, userCoupon, couponCache, rateKey, product, placeCalls,
                   statusCalls, scn>>
    /\ UNCHANGED notOrder

\* after the loop: calculate_discount, total_amount, Order.objects.create and
\* OrderItem.objects.create (inserts wait for nothing)
place_order_totals(t) ==
    /\ oc[t].pc = "item"
    /\ oc[t].idx > Len(oc[t].sorted)
    /\ IF oc[t].coupon_code = ""
       THEN /\ oc' = [oc EXCEPT ![t].pc = "commit"]
            /\ UNCHANGED <<pend, stockLock, orderLock, couponLock, th>>
       ELSE LET d == calculate_discount(oc[t].coupon, oc[t].subtotal)
            IN IF d.error
               THEN Rollback(t, "MinimumPurchaseNotMet")
               ELSE /\ oc' = [oc EXCEPT ![t].pc = "apply", ![t].discount = d.discount]
                    /\ UNCHANGED <<pend, stockLock, orderLock, couponLock, th>>
    /\ UNCHANGED <<stock, cacheStock, initQty, restoredSum, restockedSum, decreasedSum, orders,
                   coupon, userCoupon, couponCache, rateKey, product, placeCalls,
                   statusCalls, scn>>
    /\ UNCHANGED notOrder

\* _apply_coupon, first statement: UPDATE coupons SET used_count = used_count + 1;
\* it takes the Coupon row lock and waits while another transaction holds it
apply_coupon_update(t) ==
    /\ oc[t].pc = "apply"
    /\ couponLock \in {NoOne, t}
    /\ couponLock' = t
    /\ oc' = [oc EXCEPT ![t].pc = "apply_rest"]
    /\ UNCHANGED <<dbStockVars, th, orders, orderLock, coupon, userCoupon,
                   couponCache, rateKey, product, placeCalls, statusCalls, scn>>
    /\ UNCHANGED notOrder

\* _apply_coupon, the rest: cache.decr (or cache.set on a missing key) and
\* UserCoupon.objects.update_or_create
apply_coupon_rest(t) ==
    /\ oc[t].pc = "apply_rest"
    /\ couponCache' =
         IF oc[t].coupon.total_limit > 0
         THEN IF couponCache.present
              THEN Key(couponCache.val - 1)
              ELSE LET remaining == oc[t].coupon.total_limit - oc[t].coupon.used_count - 1
                   IN Key(IF remaining > 0 THEN remaining ELSE 0)
         ELSE couponCache
    /\ oc' = [oc EXCEPT ![t].pc = "commit"]
    /\ UNCHANGED <<dbStockVars, th, orders, orderLock, coupon, couponLock,
                   userCoupon, rateKey, product, placeCalls, statusCalls, scn>>
    /\ UNCHANGED notOrder

\* _apply_coupon raises (the cache or the database is unreachable): the
\* exception leaves place_order's atomic block
apply_coupon_error(t) ==
    /\ oc[t].pc = "apply_rest"
    /\ Rollback(t, "ApplyError")
    /\ UNCHANGED <<cacheStock, couponCache, rateKey, product, placeCalls,
                   statusCalls, scn>>
    /\ UNCHANGED notOrder

\* _apply_coupon: Coupon.objects.filter(id=coupon.id).update(
\* used_count=F("used_count") + 1); row is the Coupon row in the database,
\* snapshot the instance validate_coupon loaded
apply_coupon_used_count_from_instance(row, snapshot) ==
    [row EXCEPT !.used_count = snapshot.used_count + 1]

apply_coupon_used_count(row, snapshot) ==
    [row EXCEPT !.used_count = @ + 1]

\* the end of place_order's atomic block: COMMIT
place_order_commit(t) ==
    /\ oc[t].pc = "commit" /\ oc[t].op = "place_order"
    /\ stock' = CommitStock(t)
    /\ decreasedSum' = [p \in Products |-> decreasedSum[p] + ItemQty(oc[t].sorted, p)]
    /\ pend' = [pend EXCEPT ![t] = Clean]
    /\ stockLock' = ReleaseStockLocks(t)
    /\ orders' = Append(orders,
                    [user |-> oc[t].user, status |-> "PENDING",
                     items |-> oc[t].sorted,
                     applied_coupon |-> oc[t].coupon_code # "",
                     total_amount |-> quantize(total_amount(oc[t].subtotal, oc[t].discount)),
                     discount_amount |-> quantize(oc[t].discount)])
    /\ IF oc[t].coupon_code # ""
       THEN /\ coupon' = apply_coupon_used_count(coupon, oc[t].coupon)
            /\ userCoupon' = [userCoupon EXCEPT ![oc[t].user] = update_or_create(@)]
            /\ couponLock' = NoOne
       ELSE UNCHANGED <<coupon, userCoupon, couponLock>>
    /\ oc' = [oc EXCEPT ![t].pc = "done", ![t].result = "ok",
                        ![t].order_id = Len(orders) + 1]
    /\ orderLock' = Append(orderLock, NoOne)
    /\ UNCHANGED <<cacheStock, initQty, restoredSum, restockedSum, th, couponCache,
                   rateKey, product, placeCalls, statusCalls, scn>>
    /\ UNCHANGED notOrder

(* ---- update_order_status / cancel_order / mark_order_paid ---- *)
\* cancel_order(order_id) is update_order_status(order_id, CANCELLED)
update_order_status_begin(t) ==
    /\ oc[t].pc \in {"idle", "done"}
    /\ statusCalls < MaxStatusCalls
    /\ \E o \in 1..Len(orders), ns \in Statuses :
         oc' = [oc EXCEPT ![t] = [IdleOrderCall EXCEPT
                  !.op = "update_order_status", !.order_id = o,
                  !.new_status = ns, !.pc = "us_lock"]]
    /\ statusCalls' = statusCalls + 1
    /\ UNCHANGED <<dbStockVars, th, orders, orderLock, coupon, couponLock,
                   userCoupon, couponCache, rateKey, product, placeCalls, scn>>
    /\ UNCHANGED notOrder

mark_order_paid_begin(t) ==
    /\ oc[t].pc \in {"idle", "done"}
    /\ statusCalls < MaxStatusCalls
    /\ \E o \in 1..Len(orders) :
         oc' = [oc EXCEPT ![t] = [IdleOrderCall EXCEPT
                  !.op = "mark_order_paid", !.order_id = o,
                  !.new_status = "PAID", !.pc = "mp_lock"]]
    /\ statusCalls' = statusCalls + 1
    /\ UNCHANGED <<dbStockVars, th, orders, orderLock, coupon, couponLock,
                   userCoupon, couponCache, rateKey, product, placeCalls, scn>>
    /\ UNCHANGED notOrder

\* Order.objects.select_for_update().get(id=order_id), the check against
\* VALID_STATUS_TRANSITIONS and order.save(update_fields=["status", ...])
update_order_status_lock(t) ==
    /\ oc[t].pc = "us_lock"
    /\ LET o == oc[t].order_id
       IN /\ orderLock[o] = NoOne
          /\ IF <<orders[o].status, oc[t].new_status>> \notin VALID_STATUS_TRANSITIONS
             THEN /\ oc' = [oc EXCEPT ![t].pc = "done",
                                      ![t].result = "InvalidOrderStatus"]
                  /\ UNCHANGED orderLock
             ELSE /\ orderLock' = [orderLock EXCEPT ![o] = t]
                  /\ oc' = [oc EXCEPT
                        ![t].pc = IF oc[t].new_status \in STATUSES_REQUIRING_STOCK_RESTORE
                                  THEN "us_items" ELSE "commit"]
    /\ UNCHANGED <<dbStockVars, th, orders, coupon, couponLock, userCoupon,
                   couponCache, rateKey, product, placeCalls, statusCalls, scn>>
    /\ UNCHANGED notOrder

\* _restore_order_stock: order.items.all() carries no ORDER BY, so the rows
\* come in an order the database chooses
restore_order_stock_query(t) ==
    /\ oc[t].pc = "us_items"
    /\ \E perm \in Permutations(1..Len(orders[oc[t].order_id].items)) :
         oc' = [oc EXCEPT ![t].pc = "us_item", ![t].idx = 1,
                  ![t].sorted = [i \in 1..Len(orders[oc[t].order_id].items) |->
                                    orders[oc[t].order_id].items[perm[i]]]]
    /\ UNCHANGED <<dbStockVars, th, orders, orderLock, coupon, couponLock,
                   userCoupon, couponCache, rateKey, product, placeCalls,
                   statusCalls, scn>>
    /\ UNCHANGED notOrder

\* the loop of _restore_order_stock: restore_stock(item.product_id, item.quantity)
restore_order_stock_item(t) ==
    /\ oc[t].pc = "us_item"
    /\ IF oc[t].idx <= Len(oc[t].sorted)
       THEN /\ th' = [th EXCEPT ![t] = nested_call("restore", oc[t].sorted[oc[t].idx])]
            /\ oc' = [oc EXCEPT ![t].pc = "in_restore"]
       ELSE /\ oc' = [oc EXCEPT ![t].pc = "commit"]
            /\ UNCHANGED th
    /\ UNCHANGED <<dbStockVars, orders, orderLock, coupon, couponLock, userCoupon,
                   couponCache, rateKey, product, placeCalls, statusCalls, scn>>
    /\ UNCHANGED notOrder

\* restore_stock has returned or raised Stock.DoesNotExist
restore_order_stock_item_done(t) ==
    /\ oc[t].pc = "in_restore"
    /\ th[t].pc = "done"
    /\ IF th[t].result = "ok"
       THEN /\ oc' = [oc EXCEPT ![t].pc = "us_item", ![t].idx = @ + 1]
            /\ th' = [th EXCEPT ![t] = IdleThread]
            /\ UNCHANGED <<pend, stockLock, orderLock, couponLock>>
       ELSE Rollback(t, th[t].result)
    /\ UNCHANGED <<stock, cacheStock, initQty, restoredSum, restockedSum, decreasedSum, orders,
                   coupon, userCoupon, couponCache, rateKey, product, placeCalls,
                   statusCalls, scn>>
    /\ UNCHANGED notOrder

\* the end of update_order_status's atomic block: COMMIT
update_order_status_commit(t) ==
    /\ oc[t].pc = "commit" /\ oc[t].op = "update_order_status"
    /\ stock' = CommitStock(t)
    /\ restoredSum' = [p \in Products |->
                         restoredSum[p] + (IF pend[t][p].dirty
                                           THEN ItemQty(oc[t].sorted, p) ELSE 0)]
    /\ pend' = [pend EXCEPT ![t] = Clean]
    /\ stockLock' = ReleaseStockLocks(t)
    /\ orderLock' = ReleaseOrderLocks(t)
    /\ orders' = [orders EXCEPT ![oc[t].order_id].status = oc[t].new_status]
    /\ oc' = [oc EXCEPT ![t].pc = "done", ![t].result = "ok"]
    /\ UNCHANGED <<cacheStock, initQty, restockedSum, decreasedSum, th, coupon, couponLock,
                   userCoupon, couponCache, rateKey, product, placeCalls,
                   statusCalls, scn>>
    /\ UNCHANGED notOrder

\* mark_order_paid: the row lock and the status check
mark_order_paid_lock(t) ==
    /\ oc[t].pc = "mp_lock"
    /\ LET o == oc[t].order_id
       IN /\ orderLock[o] = NoOne
          /\ IF orders[o].status # "PENDING"
             THEN /\ oc' = [oc EXCEPT ![t].pc = "done",
                                      ![t].result = "InvalidOrderStatus"]
                  /\ UNCHANGED orderLock
             ELSE /\ orderLock' = [orderLock EXCEPT ![o] = t]
                  /\ oc' = [oc EXCEPT ![t].pc = "commit"]
    /\ UNCHANGED <<dbStockVars, th, orders, coupon, couponLock, userCoupon,
                   couponCache, rateKey, product, placeCalls, statusCalls, scn>>
    /\ UNCHANGED notOrder

\* mark_order_paid: order.save(update_fields=[...]) and COMMIT
mark_order_paid_commit(t) ==
    /\ oc[t].pc = "commit" /\ oc[t].op = "mark_order_paid"
    /\ orderLock' = ReleaseOrderLocks(t)
    /\ orders' = [orders EXCEPT ![oc[t].order_id].status = "PAID"]
    /\ oc' = [oc EXCEPT ![t].pc = "done", ![t].result = "ok"]
    /\ UNCHANGED <<dbStockVars, th, coupon, couponLock, userCoupon, couponCache,
                   rateKey, product, placeCalls, statusCalls, scn>>
    /\ UNCHANGED notOrder

\* the cache server becomes unreachable: from now on every cache call raises
\* (the RedisCache backend passes the client's ConnectionError on)
cache_outage ==
    /\ cacheUp
    /\ cacheUp' = FALSE
    /\ UNCHANGED <<stockVars, slotVars, orderVars, batchVars>>

cache_recovery ==
    /\ ~cacheUp
    /\ cacheUp' = TRUE
    /\ UNCHANGED <<stockVars, slotVars, orderVars, batchVars>>

\* a Stock row is deleted through the admin site (StockAdmin); the DELETE
\* waits for the row lock
stock_admin_delete(p) ==
    /\ stock[p].exists
    /\ stockLock[p] = NoOne
    /\ stock' = [stock EXCEPT ![p] = NoRow]
    /\ UNCHANGED <<stockLock, pend, cacheStock, initQty, restoredSum, restockedSum, decreasedSum,
                   th, calls>>
    /\ UNCHANGED notStockCall

\* the TTL of the cache entry (STOCK_CACHE_TTL_SECONDS) runs out
cache_expire(p) ==
    /\ cacheStock[p].present
    /\ cacheStock' = [cacheStock EXCEPT ![p] = NoKey]
    /\ UNCHANGED <<stock, stockLock, pend, initQty, restoredSum, restockedSum, decreasedSum, th, calls>>
    /\ UNCHANGED notStockCall

(* ------------------------------------------------------------------ *)
(* Initial values of each subsystem when a specification leaves it out  *)
(* ------------------------------------------------------------------ *)
StockRowsInit(k) == [p \in Products |-> IF p = P1 THEN Row(k, 0) ELSE Row(0, 0)]

StockQuiet ==
    /\ stock = StockRowsInit(0)
    /\ initQty = [p \in Products |-> 0]
    /\ stockLock = [p \in Products |-> NoOne]
    /\ cacheStock = [p \in Products |-> NoKey]
    /\ th = [t \in StockThreads |-> IdleThread]
    /\ pend = [t \in StockThreads |-> Clean]
    /\ calls = 0
    /\ restoredSum = [p \in Products |-> 0]
    /\ restockedSum = [p \in Products |-> 0]
    /\ decreasedSum = [p \in Products |-> 0]
    /\ cacheUp = TRUE

BatchQuiet ==
    /\ slotTable = <<>>
    /\ slotException = [d \in Dates |-> "none"]
    /\ bth = [t \in BatchThreads |-> IdleBatchCall]
    /\ batchCalls = 0
    /\ batchDone = {}

SlotQuiet ==
    /\ slot = [max_capacity |-> 1, current_count |-> 0, is_active |-> TRUE]
    /\ slotLock = NoOne
    /\ sth = [t \in SlotThreads |-> IdleSlotCall]
    /\ slotCalls = 0
    /\ slotPassed = FALSE
    /\ initCount = slot.current_count
    /\ BatchQuiet

ProductsInit(active2) ==
    [p \in Products |-> [is_active |-> IF p = P2 THEN active2 ELSE TRUE, price |-> 100]]

Scenario(users, itemLists, codes) ==
    [users |-> users, itemLists |-> itemLists, codes |-> codes]

OrderQuiet ==
    /\ oc = [t \in OrderThreads |-> IdleOrderCall]
    /\ orders = <<>>
    /\ orderLock = <<>>
    /\ coupon = NoCoupon
    /\ couponLock = NoOne
    /\ userCoupon = [u \in Users |-> <<>>]
    /\ couponCache = NoKey
    /\ rateKey = {}
    /\ product = ProductsInit(TRUE)
    /\ placeCalls = 0
    /\ statusCalls = 0
    /\ scn = Scenario({}, {}, {})

vars == <<stockVars, slotVars, orderVars, cacheUp, batchVars>>

(* ------------------------------------------------------------------ *)
(* Specification of the stock engine: standalone decrease_stock and     *)
(* restore_stock calls contending for one Stock row, the cache entry    *)
(* starting absent or holding any (possibly stale) value.               *)
(* ------------------------------------------------------------------ *)
StockInit ==
    /\ \E k \in 0..MaxInitQty :
         /\ stock = StockRowsInit(k)
         /\ initQty = [p \in Products |-> IF p = P1 THEN k ELSE 0]
    /\ stockLock = [p \in Products |-> NoOne]
    /\ \E c \in {NoKey} \cup {Key(v) : v \in 0..MaxCacheInit} :
         cacheStock = [p \in Products |-> IF p = P1 THEN c ELSE NoKey]
    /\ th = [t \in StockThreads |-> IdleThread]
    /\ pend = [t \in StockThreads |-> Clean]
    /\ calls = 0
    /\ restoredSum = [p \in Products |-> 0]
    /\ restockedSum = [p \in Products |-> 0]
    /\ decreasedSum = [p \in Products |-> 0]
    /\ cacheUp = TRUE

StockStep ==
    \/ \E t \in StockThreads : decrease_stock_begin(t)
    \/ \E t \in StockThreads : ensure_stock_in_redis(t)
    \/ \E t \in StockThreads : sync_stock_read(t)
    \/ \E t \in StockThreads : sync_stock_set(t)
    \/ \E t \in StockThreads : decrease_stock_decr(t)
    \/ \E t \in StockThreads : decrease_stock_undo(t)
    \/ \E t \in StockThreads : decrease_stock_db_lock(t)
    \/ \E t \in StockThreads : decrease_stock_db_update(t)
    \/ \E t \in StockThreads : decrease_stock_rollback(t)
    \/ \E t \in StockThreads : restore_stock_begin(t)
    \/ \E t \in StockThreads : restore_stock_update(t)
    \/ \E t \in StockThreads : restore_stock_incr(t)
    \/ \E t \in StockThreads : call_return(t)
    \/ \E p \in StockCallProducts : cache_expire(p)

Init == StockInit /\ SlotQuiet /\ OrderQuiet
Next == StockStep
Spec == Init /\ [][Next]_vars

(* C1: under any interleaving of decrease and restore calls on one stock
   row, whatever the cache entry holds, the durable quantity is >= 0 and
   <= the initial quantity plus the sum of all restored amounts. *)
C1_NonNegativeBounded ==
    /\ stock[P1].quantity >= 0
    /\ stock[P1].quantity <= initQty[P1] + restoredSum[P1]

\* a decrease consumed restored units and emptied the row
C1_Witness ==
    /\ restoredSum[P1] > 0
    /\ decreasedSum[P1] > initQty[P1]
    /\ stock[P1].quantity = 0

(* C11: a successful decrease_stock(p, q), q > 0, lowers the durable
   quantity of p by exactly q and raises its version by exactly 1. *)
C11_DecreaseExact ==
    [][\A t \in StockThreads :
          (/\ th[t].op = "decrease" /\ th[t].pc # "done"
           /\ th'[t].pc = "done" /\ th'[t].result = "ok")
              => /\ th[t].quantity > 0
                 /\ stock'[th[t].product_id].quantity =
                        stock[th[t].product_id].quantity - th[t].quantity
                 /\ stock'[th[t].product_id].version =
                        stock[th[t].product_id].version + 1
      ]_vars

\* the first committed call took two units at once
C11_Witness ==
    \E t \in StockThreads :
        /\ th[t].pc = "done" /\ th[t].op = "decrease" /\ th[t].result = "ok"
        /\ th[t].quantity = 2
        /\ stock[P1].quantity = initQty[P1] - 2
        /\ stock[P1].version = 1

(* C12: decrease_stock(p, q) with q greater than the durable quantity fails
   with InsufficientStockException.  The row never holds more than its
   initial quantity plus what was restored, so a call asking for more than
   that asked for more than the row held at every moment of the call. *)
C12_InsufficientRejected ==
    \A t \in StockThreads :
        (/\ th[t].pc = "done" /\ th[t].op = "decrease"
         /\ th[t].quantity > initQty[th[t].product_id] + restoredSum[th[t].product_id])
            => th[t].result = "InsufficientStock"

(* C25: restore_stock(p, q), q > 0, on an existing Stock row always
   succeeds: its UPDATE sets quantity to quantity + q and version to
   version + 1 whatever the quantity was; then a present cache entry grows
   by q, and a missing one is set to the durable quantity read after the
   UPDATE (not to q). *)
C25_RestoreUnconditional ==
    [][\A t \in StockThreads :
          LET p == th[t].product_id
          IN /\ th[t].op = "restore" /\ th[t].pc = "r_update" /\ th'[t] # th[t]
                => /\ th[t].quantity > 0
                   /\ stock'[p] = Row(stock[p].quantity + th[t].quantity,
                                      stock[p].version + 1)
                   /\ th'[t].pc = IF th[t].use_redis THEN "r_incr" ELSE "done"
             /\ th[t].pc = "r_incr" /\ th'[t] # th[t] /\ cacheStock[p].present
                => /\ cacheStock'[p] = Key(cacheStock[p].val + th[t].quantity)
                   /\ th'[t].pc = "done"
             /\ th[t].pc = "r_incr" /\ th'[t] # th[t] /\ ~cacheStock[p].present
                => th'[t].pc = "r_sync_read" /\ cacheStock' = cacheStock
             /\ th[t].pc = "r_sync_read" /\ th'[t] # th[t]
                => th'[t].pc = "r_sync_set" /\ th'[t].synced = stock[p].quantity
             /\ th[t].pc = "r_sync_set" /\ th'[t] # th[t]
                => cacheStock'[p] = Key(th[t].synced) /\ th'[t].pc = "done"
             /\ th'[t].op = "restore" /\ th'[t].pc = "done"
                => th'[t].result = "ok"
      ]_vars

\* a restore of one unit found no cache entry and set it to the durable
\* quantity, which is not the restored amount
C25_Witness ==
    \E t \in StockThreads :
        /\ th[t].op = "restore" /\ th[t].pc = "done" /\ th[t].result = "ok"
        /\ th[t].quantity = 1 /\ th[t].use_redis
        /\ th[t].synced = initQty[P1] + 1 /\ initQty[P1] > 0
        /\ stock[P1] = Row(initQty[P1] + 1, 1)
        /\ cacheStock[P1] = Key(th[t].synced)

(* C20: when the cache decrement of a decrease succeeded and the durable
   path then fails (InsufficientStock, terminal VersionConflict, missing
   Stock row), the step that handles the failure adds the requested
   quantity back to the cache entry, and the call then ends with the
   durable failure. *)
C20_RolledBackOnce ==
    [][\A t \in StockThreads :
          (th[t].pc = "rollback" /\ th'[t].pc # "rollback")
              => /\ cacheStock[th[t].product_id].present
                 /\ cacheStock'[th[t].product_id] =
                        Key(cacheStock[th[t].product_id].val + th[t].quantity)
                 /\ th'[t].pc = "done"
                 /\ th'[t].result \in {"InsufficientStock", "VersionConflict"}
      ]_vars

(* C21: when the cache value after cache.decr is negative, decrease_stock
   adds the quantity back to the cache entry, ends with InsufficientStock
   and has made no durable attempt: the Stock row is untouched. *)
C21_FastPathRejects ==
    [][\A t \in StockThreads :
          (th[t].pc = "undo" /\ th'[t].pc # "undo")
              => /\ cacheStock[th[t].product_id].present
                 /\ cacheStock'[th[t].product_id] =
                        Key(cacheStock[th[t].product_id].val + th[t].quantity)
                 /\ th'[t].pc = "done"
                 /\ th'[t].result = "InsufficientStock"
                 /\ th[t].attempt = 0
                 /\ stock' = stock
      ]_vars

(* ------------------------------------------------------------------ *)
(* Specification of the retry loop: standalone decrease_stock calls on  *)
(* one Stock row, where a durable attempt may also end in the version   *)
(* conflict branch of _decrease_stock_db.                               *)
(* ------------------------------------------------------------------ *)
RetryInit ==
    /\ \E k \in 0..MaxInitQty :
         /\ stock = StockRowsInit(k)
         /\ initQty = [p \in Products |-> IF p = P1 THEN k ELSE 0]
         /\ \E c \in {NoKey, Key(k)} :
              cacheStock = [p \in Products |-> IF p = P1 THEN c ELSE NoKey]
    /\ stockLock = [p \in Products |-> NoOne]
    /\ th = [t \in StockThreads |-> IdleThread]
    /\ pend = [t \in StockThreads |-> Clean]
    /\ calls = 0
    /\ restoredSum = [p \in Products |-> 0]
    /\ restockedSum = [p \in Products |-> 0]
    /\ decreasedSum = [p \in Products |-> 0]
    /\ cacheUp = TRUE
    /\ SlotQuiet
    /\ OrderQuiet

RetryNext ==
    \/ \E t \in StockThreads : decrease_stock_begin(t)
    \/ \E t \in StockThreads : ensure_stock_in_redis(t)
    \/ \E t \in StockThreads : sync_stock_read(t)
    \/ \E t \in StockThreads : sync_stock_set(t)
    \/ \E t \in StockThreads : decrease_stock_decr(t)
    \/ \E t \in StockThreads : decrease_stock_undo(t)
    \/ \E t \in StockThreads : decrease_stock_db_lock(t)
    \/ \E t \in StockThreads : decrease_stock_db_update(t)
    \/ \E t \in StockThreads : decrease_stock_db_conflict(t)
    \/ \E t \in StockThreads : decrease_stock_rollback(t)
    \/ \E t \in StockThreads : call_return(t)

RetrySpec == RetryInit /\ [][RetryNext]_vars

\* the attempts of a call: at most OPTIMISTIC_LOCK_MAX_RETRIES, another one
\* only after a version conflict, VersionConflict when the last one conflicts
AttemptsBounded ==
    [][\A t \in StockThreads :
          /\ th'[t].attempt <= OPTIMISTIC_LOCK_MAX_RETRIES
          /\ th'[t].attempt = OPTIMISTIC_LOCK_MAX_RETRIES
                => th'[t].pc \in {"rollback", "done"}
          /\ (th[t].pc = "db_update" /\ th'[t].pc = "db_lock")
                => /\ th'[t].last_exception = "VersionConflict"
                   /\ ReadStock(t, th[t].product_id).quantity >= th[t].quantity
                   /\ stock' = stock
          /\ (/\ th[t].pc = "db_update" /\ th'[t].pc # "db_update"
              /\ th[t].attempt = OPTIMISTIC_LOCK_MAX_RETRIES - 1
              /\ stock' = stock
              /\ ReadStock(t, th[t].product_id).quantity >= th[t].quantity)
                => /\ th'[t].pending = "VersionConflict"
                   /\ th'[t].pc = "rollback" \/ th'[t].result = "VersionConflict"
          /\ (th[t].pc = "rollback" /\ th'[t].pc = "done"
              /\ th[t].pending = "VersionConflict")
                => th'[t].result = "VersionConflict"
      ]_vars

\* the steps of call t; a worker process keeps running its call
RetryThreadStep(t) ==
    \/ ensure_stock_in_redis(t)
    \/ sync_stock_read(t)
    \/ sync_stock_set(t)
    \/ decrease_stock_decr(t)
    \/ decrease_stock_undo(t)
    \/ decrease_stock_db_lock(t)
    \/ decrease_stock_db_update(t)
    \/ decrease_stock_db_conflict(t)
    \/ decrease_stock_rollback(t)

RetryFairSpec == RetrySpec /\ \A t \in StockThreads : WF_vars(RetryThreadStep(t))

\* every call that was started ends
Terminates ==
    \A t \in StockThreads : (th[t].op = "decrease") ~> (th[t].pc = "done")

(* C22: a decrease_stock call always terminates, after at most
   OPTIMISTIC_LOCK_MAX_RETRIES durable attempts; it starts another attempt
   only after an attempt that ended in a version conflict, and when the last
   allowed attempt conflicts too the call ends with VersionConflict. *)
C22_BoundedRetries == AttemptsBounded /\ Terminates

\* a call used every attempt and gave up
C22_Witness ==
    \E t \in StockThreads :
        /\ th[t].pc = "done" /\ th[t].op = "decrease"
        /\ th[t].result = "VersionConflict"
        /\ th[t].attempt = OPTIMISTIC_LOCK_MAX_RETRIES

(* C23: a durable attempt that finds the quantity insufficient ends the
   call: the call goes to its cache rollback or ends at once with
   InsufficientStock and never starts another attempt, also when earlier
   attempts of the call conflicted and retries remain. *)
C23_InsufficientNotRetried ==
    [][\A t \in StockThreads :
          /\ (/\ th[t].pc = "db_update" /\ th'[t] # th[t]
              /\ ReadStock(t, th[t].product_id).quantity < th[t].quantity)
                => /\ th'[t].pending = "InsufficientStock"
                   /\ th'[t].pc = "rollback" \/
                        (th'[t].pc = "done" /\ th'[t].result = "InsufficientStock")
          /\ th[t].pending = "InsufficientStock"
                => /\ th'[t].pc \in {"rollback", "done", "idle"}
                   /\ th'[t].attempt \in {th[t].attempt, 0}
      ]_vars

\* the second attempt of a call, made after a conflict, found the row emptied
C23_Witness ==
    \E t \in StockThreads :
        /\ th[t].pc = "done" /\ th[t].op = "decrease"
        /\ th[t].result = "InsufficientStock"
        /\ th[t].last_exception = "VersionConflict"
        /\ th[t].attempt = 2
        /\ initQty[th[t].product_id] >= th[t].quantity

(* ------------------------------------------------------------------ *)
(* Specification of the three writers of a Stock row: standalone        *)
(* decrease_stock, restore_stock and restock_product calls contending   *)
(* for one row, the cache entry starting absent or in step with it.     *)
(* ------------------------------------------------------------------ *)
WritersInit == RetryInit

WritersNext ==
    \/ \E t \in StockThreads : decrease_stock_begin(t)
    \/ \E t \in StockThreads : ensure_stock_in_redis(t)
    \/ \E t \in StockThreads : sync_stock_read(t)
    \/ \E t \in StockThreads : sync_stock_set(t)
    \/ \E t \in StockThreads : decrease_stock_decr(t)
    \/ \E t \in StockThreads : decrease_stock_undo(t)
    \/ \E t \in StockThreads : decrease_stock_db_lock(t)
    \/ \E t \in StockThreads : decrease_stock_db_update(t)
    \/ \E t \in StockThreads : decrease_stock_rollback(t)
    \/ \E t \in StockThreads : restore_stock_begin(t)
    \/ \E t \in StockThreads : restore_stock_update(t)
    \/ \E t \in StockThreads : restore_stock_incr(t)
    \/ \E t \in StockThreads : restock_product_begin(t)
    \/ \E t \in StockThreads : restock_product_lock(t)
    \/ \E t \in StockThreads : restock_product_update(t)
    \/ \E t \in StockThreads : restock_product_on_commit(t)
    \/ \E t \in StockThreads : call_return(t)

WritersSpec == WritersInit /\ [][WritersNext]_vars

\* the amounts committed to product p so far, by kind of operation
Committed(p) == <<decreasedSum[p], restoredSum[p], restockedSum[p]>>

(* C24: the committed version of a Stock row never decreases; a step that
   commits a successful decrease, restore or restock raises it by exactly
   1, and every other step, the end of a failed call included, leaves the
   row as it was. *)
C24_VersionCountsMutations ==
    [][\A p \in Products :
          /\ stock'[p].version >= stock[p].version
          /\ Committed(p)' # Committed(p)
                => stock'[p].version = stock[p].version + 1
          /\ Committed(p)' = Committed(p) => stock'[p] = stock[p]
          /\ \A t \in StockThreads :
                (/\ th[t].pc # "done" /\ th'[t].pc = "done"
                 /\ th'[t].result # "ok" /\ th[t].product_id = p)
                    => stock'[p] = stock[p]
      ]_vars

\* a restock and a decrease both committed and the version counts both
C24_Witness ==
    /\ restockedSum[P1] > 0
    /\ decreasedSum[P1] > 0
    /\ restoredSum[P1] = 0
    /\ stock[P1].version = 2
    /\ \E t \in StockThreads : th[t].pc = "done" /\ th[t].op = "restock"

(* C30: concurrent restock_product, decrease_stock and restore_stock calls
   on one product lose no update: the committed quantity is the initial
   quantity plus the restocked and restored amounts minus the amounts of
   the successful decreases. *)
C30_NoLostUpdate ==
    \A p \in Products :
        stock[p].quantity =
            initQty[p] + restockedSum[p] + restoredSum[p] - decreasedSum[p]

\* a decrease that overlapped a restock took units the restock had added
C30_Witness ==
    /\ restockedSum[P1] > 0
    /\ decreasedSum[P1] > initQty[P1]
    /\ \E t1, t2 \in StockThreads :
         /\ th[t1].op = "restock" /\ th[t1].pc = "k_cache"
         /\ th[t2].op = "decrease" /\ th[t2].pc = "done" /\ th[t2].result = "ok"

(* C39: when every mutation of a Stock row goes through decrease_stock,
   restore_stock or restock_product, the version-conflict branch of
   _decrease_stock_db is unreachable: between select_for_update and the
   conditional UPDATE the call holds the row lock and the row keeps the
   version it read, so an UPDATE that matches no row means quantity <
   requested, and no call raises or records StockUpdateConflictException. *)
C39_NoVersionConflict ==
    \A t \in StockThreads :
        /\ th[t].pc = "db_update" =>
              /\ stockLock[th[t].product_id] = t
              /\ ReadStock(t, th[t].product_id).version = th[t].current_version
              /\ decrease_stock_db(ReadStock(t, th[t].product_id), th[t].quantity,
                                   th[t].current_version).outcome # "VersionConflict"
        /\ th[t].result # "VersionConflict"
        /\ th[t].pending # "VersionConflict"
        /\ th[t].last_exception # "VersionConflict"

\* the UPDATE of a decrease matched no row after a restore had raised the
\* version of the row, and the call ended with InsufficientStock
C39_Witness ==
    /\ restoredSum[P1] > 0
    /\ stock[P1].version >= 1
    /\ \E t \in StockThreads :
         /\ th[t].op = "decrease" /\ th[t].pc = "done"
         /\ th[t].result = "InsufficientStock" /\ th[t].attempt = 1

(* ------------------------------------------------------------------ *)
(* Specification of the stock engine with cache outages: the calls of   *)
(* Spec, and the cache server may stop answering and come back at any   *)
(* moment.                                                              *)
(* ------------------------------------------------------------------ *)
OutageInit == StockInit /\ SlotQuiet /\ OrderQuiet

OutageNext ==
    \/ StockStep
    \/ cache_outage
    \/ cache_recovery

OutageSpec == OutageInit /\ [][OutageNext]_vars

(* C17: a cache failure never makes decrease_stock fail: no call ends
   with the cache's connection error. *)
C17_CacheErrorNeverFails ==
    \A t \in StockThreads :
        (th[t].pc = "done" /\ th[t].op = "decrease")
            => th[t].result # "ConnectionError"

(* ------------------------------------------------------------------ *)
(* Specification of the stock engine with missing rows: the calls of    *)
(* Spec on a product whose Stock row may be absent from the start or be *)
(* deleted through the admin site.                                      *)
(* ------------------------------------------------------------------ *)
IntegrityInit ==
    /\ \E r \in {NoRow} \cup {Row(k, 0) : k \in 0..MaxInitQty} :
         /\ stock = [p \in Products |-> IF p = P1 THEN r ELSE Row(0, 0)]
         /\ initQty = [p \in Products |-> IF p = P1 THEN r.quantity ELSE 0]
    /\ stockLock = [p \in Products |-> NoOne]
    /\ \E c \in {NoKey} \cup {Key(v) : v \in 0..MaxCacheInit} :
         cacheStock = [p \in Products |-> IF p = P1 THEN c ELSE NoKey]
    /\ th = [t \in StockThreads |-> IdleThread]
    /\ pend = [t \in StockThreads |-> Clean]
    /\ calls = 0
    /\ restoredSum = [p \in Products |-> 0]
    /\ restockedSum = [p \in Products |-> 0]
    /\ decreasedSum = [p \in Products |-> 0]
    /\ cacheUp = TRUE
    /\ SlotQuiet
    /\ OrderQuiet

IntegrityNext ==
    \/ StockStep
    \/ \E p \in StockCallProducts : stock_admin_delete(p)

IntegritySpec == IntegrityInit /\ [][IntegrityNext]_vars

(* C18: a decrease_stock call that finds no Stock row ends with an error
   that is not the InsufficientStock business rejection. *)
C18_MissingRowIsIntegrityError ==
    \A t \in StockThreads :
        (th[t].pc = "done" /\ th[t].op = "decrease"
         /\ th[t].pending = "StockNotFound")
            => th[t].result # "InsufficientStock"

(* ------------------------------------------------------------------ *)
(* Specification of the durable path alone: NConcurrent calls           *)
(* decrease_stock(P1, q, use_redis=False) are in flight at once against *)
(* a row holding K units (tests/concurrency/test_stock.py).             *)
(* ------------------------------------------------------------------ *)
DurableInit ==
    /\ \E k \in 0..MaxRaceQty :
         /\ stock = StockRowsInit(k)
         /\ initQty = [p \in Products |-> IF p = P1 THEN k ELSE 0]
    /\ stockLock = [p \in Products |-> NoOne]
    /\ cacheStock = [p \in Products |-> NoKey]
    /\ \E q \in 1..MaxQty :
         th = [t \in DurableThreads |->
                 [IdleThread EXCEPT !.op = "decrease", !.quantity = q,
                                    !.pc = "db_lock"]]
    /\ pend = [t \in DurableThreads |-> Clean]
    /\ calls = NConcurrent
    /\ restoredSum = [p \in Products |-> 0]
    /\ restockedSum = [p \in Products |-> 0]
    /\ decreasedSum = [p \in Products |-> 0]
    /\ cacheUp = TRUE
    /\ SlotQuiet
    /\ OrderQuiet

DurableNext ==
    \/ \E t \in DurableThreads : decrease_stock_db_lock(t)
    \/ \E t \in DurableThreads : decrease_stock_db_update(t)

DurableSpec == DurableInit /\ [][DurableNext]_vars

Succeeded == {t \in DOMAIN th : th[t].pc = "done" /\ th[t].result = "ok"}
Rejected == {t \in DOMAIN th : th[t].pc = "done" /\ th[t].result = "InsufficientStock"}
AllReturned == \A t \in DOMAIN th : th[t].pc = "done"

(* C2: N concurrent decrease(p, q) calls on the durable path against a row
   holding K units with N*q > K end with exactly floor(K/q) successes, every
   other call failing with InsufficientStock, and a final quantity of
   K - q*floor(K/q). *)
C2_NoOversellNoLostUpdate ==
    LET q == th[1].quantity
        K == initQty[P1]
    IN (AllReturned /\ NConcurrent * q > K) =>
         /\ Cardinality(Succeeded) = K \div q
         /\ Cardinality(Rejected) = NConcurrent - (K \div q)
         /\ stock[P1].quantity = K - q * (K \div q)

\* all calls returned, one succeeded, the others were rejected, a remainder is left
C2_Witness ==
    /\ AllReturned
    /\ Cardinality(Succeeded) = 1
    /\ Cardinality(Rejected) = NConcurrent - 1
    /\ th[1].quantity = 2
    /\ stock[P1].quantity = 1
    /\ initQty[P1] = 3

(* ------------------------------------------------------------------ *)
(* Specification of the delivery slot engine: reserve_slot,             *)
(* release_slot and emergency_block_slot calls on one slot.             *)
(* ------------------------------------------------------------------ *)
SlotInit ==
    /\ \E m \in 1..MaxCapacity : \E c \in 0..m :
         slot = [max_capacity |-> m, current_count |-> c, is_active |-> TRUE]
    /\ slotLock = NoOne
    /\ sth = [t \in SlotThreads |-> IdleSlotCall]
    /\ slotCalls = 0
    /\ slotPassed = FALSE
    /\ initCount = slot.current_count
    /\ BatchQuiet

SlotStep ==
    \/ \E t \in SlotThreads : slot_call_begin(t)
    \/ \E t \in SlotThreads : slot_lock(t)
    \/ \E t \in SlotThreads : reserve_slot(t)
    \/ \E t \in SlotThreads : release_slot(t)
    \/ \E t \in SlotThreads : emergency_block_slot(t)
    \/ \E t \in SlotThreads : slot_call_return(t)
    \/ slot_time_passes

SlotSpecInit == SlotInit /\ StockQuiet /\ OrderQuiet
SlotNext == SlotStep
SlotSpec == SlotSpecInit /\ [][SlotNext]_vars

(* C3: for every slot, 0 <= current_count <= max_capacity holds in every
   reachable state, after any interleaving of reserve, release and
   emergencyBlock calls on that slot. *)
C3_CapacityBound ==
    /\ 0 <= slot.current_count
    /\ slot.current_count <= slot.max_capacity

\* the slot was filled by a reserve, and a release on an empty slot returned
C3_Witness ==
    /\ \E t \in SlotThreads :
         sth[t].pc = "done" /\ sth[t].op = "release" /\ sth[t].slot.current_count = 0
    /\ \E t \in SlotThreads :
         sth[t].pc = "done" /\ sth[t].op = "reserve" /\ sth[t].result = "ok"
           /\ sth[t].slot.current_count = sth[t].slot.max_capacity

(* C6: after emergencyBlock(slot) has committed, every later reserve(slot)
   is rejected with an error and leaves current_count unchanged. *)
C6_BlockedSlotRejectsReserve ==
    \A t \in SlotThreads :
        (sth[t].pc = "done" /\ sth[t].op = "reserve" /\ sth[t].blocked_before)
            => sth[t].result # "ok"

(* C13: release_slot on a slot whose current_count is 0 raises no error
   and leaves current_count at 0, so releasing the same reservation twice
   never drives the count below 0. *)
C13_ReleaseAtZeroIsNoOp ==
    [][\A t \in SlotThreads :
          (/\ sth[t].pc = "locked" /\ sth[t].op = "release"
           /\ sth'[t].pc = "done")
              => /\ sth'[t].result = "ok"
                 /\ slot.current_count = 0 => slot'.current_count = 0
                 /\ slot'.current_count >= 0
      ]_vars

\* the one reservation of the slot was released by both workers
C13_Witness ==
    /\ initCount = 1 /\ slotCalls = 2
    /\ \A t \in SlotThreads :
         sth[t].pc = "done" /\ sth[t].op = "release" /\ sth[t].result = "ok"
    /\ slot.current_count = 0

(* C27: emergency_block_slot sets is_active to false and leaves
   current_count and max_capacity of the row as they are at its write,
   whatever reserve_slot and release_slot calls on the slot were committed
   while it waited for the row; and a reserve or release changes
   current_count only, so no count is lost or overwritten by the block. *)
C27_BlockKeepsCounts ==
    [][\A t \in SlotThreads :
          (sth[t].pc = "locked" /\ sth'[t].pc = "done")
              => IF sth[t].op = "block"
                 THEN /\ sth'[t].result = "ok"
                      /\ slot' = [slot EXCEPT !.is_active = FALSE]
                 ELSE /\ slot'.is_active = slot.is_active
                      /\ slot'.max_capacity = slot.max_capacity
      ]_vars

\* a reserve_slot was committed between the start of the model and the
\* block's write, and its count is still in the blocked row
C27_Witness ==
    /\ ~slot.is_active
    /\ slot.current_count = initCount + 1
    /\ \E t \in SlotThreads :
         sth[t].pc = "done" /\ sth[t].op = "block" /\ sth[t].result = "ok"
    /\ \E t \in SlotThreads :
         /\ sth[t].pc = "done" /\ sth[t].op = "reserve" /\ sth[t].result = "ok"
         /\ ~sth[t].blocked_before

(* ------------------------------------------------------------------ *)
(* Specification of slot provisioning: batch_create_slots calls, two at *)
(* a time, on a table that may already hold a full, deactivated slot of *)
(* capacity 1, with at most one exception entry. No code writes         *)
(* DeliverySlotException, and only batch_create_slots creates slots, so *)
(* the exceptions are constant and the initial slot is on an unblocked  *)
(* date.                                                                *)
(* ------------------------------------------------------------------ *)
BatchInit ==
    /\ \E x \in Dates : \E e \in {"none", "open", "blocked"} :
         slotException = [d \in Dates |-> IF d = x THEN e ELSE "none"]
    /\ \/ slotTable = <<>>
       \/ \E d \in Dates : \E w \in Windows :
            /\ slotException[d] # "blocked"
            /\ slotTable = <<SlotRow(d, w, 1, 1, FALSE, NoOne)>>
    /\ bth = [t \in BatchThreads |-> IdleBatchCall]
    /\ batchCalls = 0
    /\ batchDone = {}
    /\ slot = [max_capacity |-> 1, current_count |-> 0, is_active |-> TRUE]
    /\ slotLock = NoOne
    /\ sth = [t \in SlotThreads |-> IdleSlotCall]
    /\ slotCalls = 0
    /\ slotPassed = FALSE
    /\ initCount = slot.current_count
    /\ StockQuiet
    /\ OrderQuiet

BatchNext ==
    \/ \E t \in BatchThreads : batch_call_begin(t)
    \/ \E t \in BatchThreads : batch_day(t)
    \/ \E t \in BatchThreads : batch_get_or_create(t)
    \/ \E t \in BatchThreads : batch_commit(t)
    \/ \E t \in BatchThreads : batch_call_return(t)

BatchSpec == BatchInit /\ [][BatchNext]_vars

\* the columns of a DeliverySlot row
Columns(r) == <<r.date, r.window, r.max_capacity, r.current_count, r.is_active>>

\* at most one slot per (date, start_time, end_time), none on a blocked date
OneSlotPerKey ==
    /\ \A k1, k2 \in 1..Len(slotTable) :
         (slotTable[k1].date = slotTable[k2].date
            /\ slotTable[k1].window = slotTable[k2].window) => k1 = k2
    /\ \A k \in 1..Len(slotTable) : ~is_blocked_date(slotTable[k].date)

\* no step changes a column of an existing slot, and a call whose arguments
\* are those of a call committed before it started creates no slot
RerunCreatesNothing ==
    [][/\ Len(slotTable') >= Len(slotTable)
       /\ \A k \in 1..Len(slotTable) :
            Columns(slotTable'[k]) = Columns(slotTable[k])
       /\ \A t \in BatchThreads :
            bth'[t].again => /\ bth'[t].created = <<>>
                             /\ \A k \in 1..Len(slotTable') : slotTable'[k].tx # t
      ]_vars

(* C28: batch_create_slots is idempotent: a run with the arguments of an
   earlier committed run creates no slot and changes no existing slot's
   max_capacity, current_count or is_active, and after any number of runs
   there is at most one slot per (date, start_time, end_time) and none on
   a date with a blocking exception entry. *)
C28_BatchIdempotent == []OneSlotPerKey /\ RerunCreatesNothing

\* a second run with the arguments of a committed run has committed: the
\* first run skipped the blocked date, found the slot that was there from
\* the start and created the other slot of its date
C28_Witness ==
    /\ Len(slotTable) = 2
    /\ slotTable[1].current_count > 0 /\ ~slotTable[1].is_active
    /\ \E d \in Dates : slotException[d] = "blocked"
    /\ \E t \in BatchThreads :
         /\ bth[t].pc = "done" /\ bth[t].again
         /\ bth[t].args.days = MaxDays /\ bth[t].args.time_slots = <<1, 2>>
         /\ bth[t].args.capacity # slotTable[1].max_capacity

(* ------------------------------------------------------------------ *)
(* Specification of the reservation race: NConcurrent reserve_slot      *)
(* calls in flight at once on one unexpired slot                        *)
(* (tests/concurrency/test_delivery_slots.py).                          *)
(* ------------------------------------------------------------------ *)
SlotRaceInit ==
    /\ \E m \in 1..MaxCapacity : \E c \in 0..m :
         slot = [max_capacity |-> m, current_count |-> c, is_active |-> TRUE]
    /\ slotLock = NoOne
    /\ sth = [t \in DurableThreads |->
                [IdleSlotCall EXCEPT !.op = "reserve", !.pc = "lock"]]
    /\ slotCalls = NConcurrent
    /\ slotPassed = FALSE
    /\ initCount = slot.current_count
    /\ BatchQuiet
    /\ StockQuiet
    /\ OrderQuiet

SlotRaceNext ==
    \/ \E t \in DurableThreads : slot_lock(t)
    \/ \E t \in DurableThreads : reserve_slot(t)

SlotRaceSpec == SlotRaceInit /\ [][SlotRaceNext]_vars

Reserved == {t \in DOMAIN sth : sth[t].pc = "done" /\ sth[t].result = "ok"}
Full == {t \in DOMAIN sth : sth[t].pc = "done" /\ sth[t].result = "SlotFull"}

(* C4: N concurrent reserve calls on one unexpired slot with
   c = max_capacity - current_count free units and N > c end with exactly c
   successes, N - c SlotFull failures, and current_count = max_capacity. *)
C4_NoOverbooking ==
    LET c == slot.max_capacity - initCount
    IN ((\A t \in DOMAIN sth : sth[t].pc = "done") /\ NConcurrent > c) =>
         /\ Cardinality(Reserved) = c
         /\ Cardinality(Full) = NConcurrent - c
         /\ slot.current_count = slot.max_capacity

\* the race ended with the free units taken and the other calls rejected
C4_Witness ==
    /\ \A t \in DOMAIN sth : sth[t].pc = "done"
    /\ slot.max_capacity - initCount = 2
    /\ Cardinality(Reserved) = 2
    /\ Cardinality(Full) = NConcurrent - 2
    /\ slot.current_count = slot.max_capacity


(* ------------------------------------------------------------------ *)
(* Specification of concurrent checkouts: two place_order calls are in  *)
(* flight at once.  Each names the two products, in either order, with  *)
(* or without the coupon; the coupon's quota may be nearly or fully     *)
(* used, its minimum purchase may exceed the subtotal, the second       *)
(* product may be short of stock or withdrawn, the cache entries may be *)
(* absent or stale.                                                     *)
(* ------------------------------------------------------------------ *)
CouponRow(limit, used, dtype, value, minimum) ==
    [is_active |-> TRUE, window |-> "in", total_limit |-> limit,
     used_count |-> used, discount_type |-> dtype, discount_value |-> value,
     min_purchase_amount |-> minimum]

OrderStockInit(k1, k2) ==
    /\ stock = [p \in Products |-> IF p = P1 THEN Row(k1, 0) ELSE Row(k2, 0)]
    /\ initQty = [p \in Products |-> IF p = P1 THEN k1 ELSE k2]
    /\ stockLock = [p \in Products |-> NoOne]
    /\ th = [t \in OrderThreads |-> IdleThread]
    /\ pend = [t \in OrderThreads |-> Clean]
    /\ calls = 0
    /\ restoredSum = [p \in Products |-> 0]
    /\ restockedSum = [p \in Products |-> 0]
    /\ decreasedSum = [p \in Products |-> 0]
    /\ cacheUp = TRUE

OrderTablesInit ==
    /\ orders = <<>>
    /\ orderLock = <<>>
    /\ couponLock = NoOne
    /\ userCoupon = [u \in Users |-> <<>>]
    /\ couponCache = NoKey
    /\ rateKey = {}
    /\ statusCalls = 0
    /\ SlotQuiet

TwoLines == {<<Item(P1, 1), Item(P2, 1)>>, <<Item(P2, 1), Item(P1, 1)>>}

PlaceInit ==
    /\ OrderTablesInit
    /\ scn = Scenario(Users, TwoLines, {"", couponCode})
    /\ \E l \in 1..MaxLimit : \E u \in {l - 1, l} : \E m \in {0, 300} :
         coupon = CouponRow(l, u, "FIXED_AMOUNT", 50, m)
    /\ \E a \in BOOLEAN : product = ProductsInit(a)
    /\ \E k \in 0..MaxOrderStock : OrderStockInit(MaxOrderStock, k)
    /\ \E c \in {NoKey, Key(MaxOrderStock)} : cacheStock = [p \in Products |-> c]
    /\ \E u \in [OrderThreads -> scn.users], its \in [OrderThreads -> scn.itemLists],
          code \in [OrderThreads -> scn.codes] :
         oc = [t \in OrderThreads |-> [IdleOrderCall EXCEPT
                  !.op = "place_order", !.user = u[t], !.items = its[t],
                  !.coupon_code = code[t], !.pc = "rate"]]
    /\ placeCalls = Cardinality(OrderThreads)

PlaceNext ==
    \/ \E t \in OrderThreads : check_order_rate_limit(t)
    \/ \E t \in OrderThreads : validate_coupon(t)
    \/ \E t \in OrderThreads : validate_coupon_quota(t)
    \/ \E t \in OrderThreads : validate_coupon_quota_sync(t)
    \/ \E t \in OrderThreads : validate_coupon_used(t)
    \/ \E t \in OrderThreads : place_order_item(t)
    \/ \E t \in OrderThreads : place_order_item_done(t)
    \/ \E t \in OrderThreads : place_order_totals(t)
    \/ \E t \in OrderThreads : apply_coupon_update(t)
    \/ \E t \in OrderThreads : apply_coupon_rest(t)
    \/ \E t \in OrderThreads : apply_coupon_error(t)
    \/ \E t \in OrderThreads : place_order_commit(t)
    \/ \E t \in OrderThreads : ensure_stock_in_redis(t)
    \/ \E t \in OrderThreads : sync_stock_read(t)
    \/ \E t \in OrderThreads : sync_stock_set(t)
    \/ \E t \in OrderThreads : decrease_stock_decr(t)
    \/ \E t \in OrderThreads : decrease_stock_undo(t)
    \/ \E t \in OrderThreads : decrease_stock_db_lock(t)
    \/ \E t \in OrderThreads : decrease_stock_db_update(t)
    \/ \E t \in OrderThreads : decrease_stock_rollback(t)

PlaceSpec == PlaceInit /\ [][PlaceNext]_vars

(* C33: after a place_order call has aborted inside its transaction (a
   later line item failed with InsufficientStock, or MinimumPurchaseNotMet
   was raised after all decrements), the cache entry of every product
   whose decrease had succeeded in that call is back at its value before
   the call, matching the rolled-back durable quantity. Stated for a call
   that ran alone: the other worker has not yet taken a step. *)
C33_CacheBackAfterAbort ==
    \A t \in OrderThreads :
        (/\ oc[t].pc = "done"
         /\ oc[t].result \in {"InsufficientStock", "MinimumPurchaseNotMet"}
         /\ \A t2 \in OrderThreads \ {t} : oc[t2].pc = "rate")
            => \A i \in 1..(oc[t].idx - 1) :
                  LET p == oc[t].sorted[i].product_id
                  IN /\ stock[p].quantity = initQty[p]
                     /\ cacheStock[p].present
                           => cacheStock[p].val = stock[p].quantity

(* C5: for a coupon with total_limit = L > 0, used_count <= L in every
   reachable state, and at most L orders commit with the coupon applied,
   whatever the interleaving of place_order calls by distinct users. *)
AppliedOrders == {o \in 1..Len(orders) : orders[o].applied_coupon}

C5_QuotaCeiling ==
    coupon.total_limit > 0 =>
        /\ coupon.used_count <= coupon.total_limit
        /\ Cardinality(AppliedOrders) <= coupon.total_limit

(* C7: two concurrent place_order calls naming the same two products in
   opposite order never reach a state in which each holds a Stock row lock
   the other is waiting for, and while a call is unfinished some step of
   the system can be taken, so both calls end with a commit or a rejection. *)
WaitsFor(t, p) ==
    /\ th[t].pc = "db_lock"
    /\ th[t].product_id = p
    /\ stockLock[p] \notin {NoOne, t}

CircularWait ==
    \E t1, t2 \in OrderThreads : \E p, q \in Products :
        /\ t1 # t2 /\ p # q
        /\ stockLock[p] = t1 /\ WaitsFor(t2, p)
        /\ stockLock[q] = t2 /\ WaitsFor(t1, q)

AllAnswered == \A t \in OrderThreads : oc[t].pc = "done"

C7_NoCircularWait ==
    /\ ~CircularWait
    /\ AllAnswered \/ ENABLED PlaceNext

\* the call that names P1 first holds the P1 row lock and has moved on to
\* its second line; the call that names P2 first is waiting for that lock
C7_Witness ==
    /\ oc[1].items = <<Item(P1, 1), Item(P2, 1)>>
    /\ oc[2].items = <<Item(P2, 1), Item(P1, 1)>>
    /\ stockLock[P1] = 1 /\ oc[1].idx = 2
    /\ WaitsFor(2, P1)

(* C15: for one user, while the key ratelimit:order:{user} is present at
   most one place_order call passes the rate-limit step, also when the
   calls run concurrently: a call passes only in the step that creates the
   key, and a call that finds it fails with RateLimitExceededException
   before any coupon validation, stock decrement or cache decrement. *)
PassedRateLimit(t) ==
    /\ oc[t].op = "place_order"
    /\ oc[t].pc # "rate"
    /\ oc[t].result # "RateLimitExceeded"

C15_OnePerUserWhileKeyPresent ==
    [][/\ \A t \in OrderThreads :
            (~PassedRateLimit(t) /\ PassedRateLimit(t)')
                => oc[t].user \notin rateKey /\ oc[t].user \in rateKey'
       /\ \A t \in OrderThreads :
            (oc[t].pc # "done" /\ oc'[t].pc = "done"
             /\ oc'[t].result = "RateLimitExceeded")
                => /\ oc[t].pc = "rate" /\ oc[t].user \in rateKey
                   /\ UNCHANGED <<stock, pend, cacheStock, couponCache, coupon,
                                  userCoupon, orders, th>>
       /\ \A t1, t2 \in OrderThreads :
            (t1 # t2 /\ oc[t1].user = oc[t2].user)
                => ~(PassedRateLimit(t1)' /\ PassedRateLimit(t2)')
      ]_vars

\* two concurrent calls of one user: one committed, the other was refused
\* without having validated a coupon or touched a cache entry
C15_Witness ==
    \E t1, t2 \in OrderThreads :
        /\ oc[t1].user = oc[t2].user
        /\ oc[t1].pc = "done" /\ oc[t1].result = "ok"
        /\ oc[t2].pc = "done" /\ oc[t2].result = "RateLimitExceeded"
        /\ oc[t2].coupon_code = couponCode /\ oc[t2].coupon = NoCoupon
        /\ oc[t2].idx = 1

(* C10: a place_order call that fails inside its transaction leaves the
   durable state as it was: the step that ends the call with an exception
   changes no Stock row (quantity and version), persists no order, leaves
   used_count and the UserCoupon rows alone, and no earlier step of the call
   had changed them either, because the committed rows change only in the
   step that ends a call successfully. *)
DurableState == <<stock, orders, coupon, userCoupon>>

C10_FailedOrderLeavesNoTrace ==
    [][/\ \A t \in OrderThreads :
            (oc[t].pc # "done" /\ oc'[t].pc = "done" /\ oc'[t].result # "ok")
                => UNCHANGED DurableState
       /\ DurableState' # DurableState
            => \E t \in OrderThreads :
                  oc[t].pc = "commit" /\ oc'[t].pc = "done" /\ oc'[t].result = "ok"
      ]_vars

\* the second line of an order was refused by the database after the first
\* line's decrement had been written in the transaction; nothing is left
C10_Witness ==
    \E t \in OrderThreads :
        /\ oc[t].pc = "done" /\ oc[t].result = "InsufficientStock"
        /\ oc[t].idx = 2
        /\ initQty[P2] = 0 /\ cacheStock[P2] = Key(MaxOrderStock)
        /\ \A p \in Products : stock[p] = Row(initQty[p], 0)
        /\ orders = <<>>
        /\ \A u \in Users : userCoupon[u] = <<>>

(* ------------------------------------------------------------------ *)
(* Specification of a coupon race: one user has two place_order calls   *)
(* with the same coupon in flight, both past check_order_rate_limit     *)
(* (the key lives RATE_LIMIT_ORDER_SECONDS = 1 second) and about to run *)
(* validate_coupon. The coupon is unlimited or has quota to spare.      *)
(* ------------------------------------------------------------------ *)
CouponRaceInit ==
    /\ OrderTablesInit
    /\ scn = Scenario({1}, TwoLines, {couponCode})
    /\ \E l \in {0, MaxLimit + 1} : \E m \in {0, 300} :
         coupon = CouponRow(l, 0, "FIXED_AMOUNT", 50, m)
    /\ \E a \in BOOLEAN : product = ProductsInit(a)
    /\ \E k \in 0..MaxOrderStock : OrderStockInit(MaxOrderStock, k)
    /\ \E c \in {NoKey, Key(MaxOrderStock)} : cacheStock = [p \in Products |-> c]
    /\ \E its \in [OrderThreads -> scn.itemLists] :
         oc = [t \in OrderThreads |-> [IdleOrderCall EXCEPT
                  !.op = "place_order", !.user = 1, !.items = its[t],
                  !.sorted = sorted_items(its[t]),
                  !.coupon_code = couponCode, !.pc = "validate"]]
    /\ placeCalls = Cardinality(OrderThreads)

CouponRaceNext ==
    \/ \E t \in OrderThreads : validate_coupon(t)
    \/ \E t \in OrderThreads : validate_coupon_quota(t)
    \/ \E t \in OrderThreads : validate_coupon_used(t)
    \/ \E t \in OrderThreads : place_order_item(t)
    \/ \E t \in OrderThreads : place_order_item_done(t)
    \/ \E t \in OrderThreads : place_order_totals(t)
    \/ \E t \in OrderThreads : apply_coupon_update(t)
    \/ \E t \in OrderThreads : apply_coupon_rest(t)
    \/ \E t \in OrderThreads : apply_coupon_error(t)
    \/ \E t \in OrderThreads : place_order_commit(t)
    \/ \E t \in OrderThreads : ensure_stock_in_redis(t)
    \/ \E t \in OrderThreads : sync_stock_read(t)
    \/ \E t \in OrderThreads : sync_stock_set(t)
    \/ \E t \in OrderThreads : decrease_stock_decr(t)
    \/ \E t \in OrderThreads : decrease_stock_undo(t)
    \/ \E t \in OrderThreads : decrease_stock_db_lock(t)
    \/ \E t \in OrderThreads : decrease_stock_db_update(t)
    \/ \E t \in OrderThreads : decrease_stock_rollback(t)

CouponRaceSpec == CouponRaceInit /\ [][CouponRaceNext]_vars

(* C26: a repeated _apply_coupon for the same (user, coupon) raises no
   error and leaves exactly one UserCoupon row for the pair, with used_at
   set: the table never holds two rows for one pair, and the commit of a
   second order of the user with the coupon ends with success and leaves
   the pair's one row as it was. *)
C26_ApplyIdempotent ==
    [][/\ \A u \in Users : Len(userCoupon'[u]) <= 1
       /\ \A t \in OrderThreads :
            (/\ oc[t].pc = "commit" /\ oc'[t] # oc[t]
             /\ oc[t].coupon_code = couponCode
             /\ userCoupon[oc[t].user] # <<>>)
                => /\ oc'[t].result = "ok"
                   /\ userCoupon'[oc[t].user] = <<TRUE>>
                   /\ userCoupon' = userCoupon
      ]_vars

\* the second order of user 1 with the coupon was committed
C26_Witness ==
    /\ Cardinality({o \in AppliedOrders : orders[o].user = 1}) = 2
    /\ userCoupon[1] = <<TRUE>>
    /\ \A t \in OrderThreads : oc[t].pc = "done" /\ oc[t].result = "ok"

(* C19: no user ends with two committed orders that used the coupon: of
   two place_order calls by one user that both passed validate_coupon, at
   most one commits with the coupon applied. *)
C19_OneCouponUsePerUser ==
    \A u \in Users :
        Cardinality({o \in AppliedOrders : orders[o].user = u}) <= 1

(* ------------------------------------------------------------------ *)
(* Specification of the life of an order: the workers place orders and  *)
(* then serve update_order_status (cancel_order is one of its uses) and *)
(* mark_order_paid requests for them, with any requested status.        *)
(* ------------------------------------------------------------------ *)
LifeInit ==
    /\ OrderTablesInit
    /\ oc = [t \in OrderThreads |-> IdleOrderCall]
    /\ placeCalls = 0
    /\ coupon = NoCoupon
    /\ scn = Scenario(Users, {<<Item(P1, 1), Item(P2, 2)>>, <<Item(P1, 1), Item(P1, 1)>>}, {""})
    /\ product = ProductsInit(TRUE)
    /\ OrderStockInit(MaxOrderStock, MaxOrderStock)
    /\ cacheStock = [p \in Products |-> NoKey]

LifeNext ==
    \/ \E t \in OrderThreads : place_order_begin(t)
    \/ \E t \in OrderThreads : check_order_rate_limit(t)
    \/ \E t \in OrderThreads : place_order_item(t)
    \/ \E t \in OrderThreads : place_order_item_done(t)
    \/ \E t \in OrderThreads : place_order_totals(t)
    \/ \E t \in OrderThreads : place_order_commit(t)
    \/ \E t \in OrderThreads : update_order_status_begin(t)
    \/ \E t \in OrderThreads : mark_order_paid_begin(t)
    \/ \E t \in OrderThreads : update_order_status_lock(t)
    \/ \E t \in OrderThreads : restore_order_stock_query(t)
    \/ \E t \in OrderThreads : restore_order_stock_item(t)
    \/ \E t \in OrderThreads : restore_order_stock_item_done(t)
    \/ \E t \in OrderThreads : update_order_status_commit(t)
    \/ \E t \in OrderThreads : mark_order_paid_lock(t)
    \/ \E t \in OrderThreads : mark_order_paid_commit(t)
    \/ \E t \in OrderThreads : ensure_stock_in_redis(t)
    \/ \E t \in OrderThreads : sync_stock_read(t)
    \/ \E t \in OrderThreads : sync_stock_set(t)
    \/ \E t \in OrderThreads : decrease_stock_decr(t)
    \/ \E t \in OrderThreads : decrease_stock_db_lock(t)
    \/ \E t \in OrderThreads : decrease_stock_db_update(t)
    \/ \E t \in OrderThreads : restore_stock_update(t)
    \/ \E t \in OrderThreads : restore_stock_incr(t)

LifeSpec == LifeInit /\ [][LifeNext]_vars

(* C8: an order's status changes only along PENDING->PAID,
   PENDING->CANCELLED, PAID->SHIPPED, PAID->REFUNDED, SHIPPED->REFUNDED; any
   other requested transition, including every one out of CANCELLED or
   REFUNDED, ends the call with InvalidOrderStatusException (the spec's
   InvalidStatusTransition) and leaves the order's status and every Stock
   row unchanged. *)
TransitionTable ==
    {<<"PENDING", "PAID">>, <<"PENDING", "CANCELLED">>, <<"PAID", "SHIPPED">>,
     <<"PAID", "REFUNDED">>, <<"SHIPPED", "REFUNDED">>}

C8_OnlyTableTransitions ==
    [][/\ \A o \in 1..Len(orders) :
            orders'[o].status # orders[o].status
                => <<orders[o].status, orders'[o].status>> \in TransitionTable
       /\ \A t \in OrderThreads :
            (/\ oc[t].pc \in {"us_lock", "mp_lock"}
             /\ oc'[t] # oc[t]
             /\ <<orders[oc[t].order_id].status, oc[t].new_status>> \notin TransitionTable)
                => /\ oc'[t].pc = "done"
                   /\ oc'[t].result = "InvalidOrderStatus"
                   /\ UNCHANGED <<orders, stock>>
      ]_vars

\* a request to leave CANCELLED or REFUNDED has been rejected
C8_Witness ==
    \E t \in OrderThreads :
        /\ oc[t].pc = "done" /\ oc[t].op = "update_order_status"
        /\ oc[t].result = "InvalidOrderStatus"
        /\ orders[oc[t].order_id].status \in {"CANCELLED", "REFUNDED"}
        /\ oc[t].new_status \in {"PENDING", "PAID"}

(* C9: when an order moves into CANCELLED or REFUNDED, the durable quantity
   of each product grows by exactly the quantity the order's line items hold
   of it, so a product the order does not name keeps its quantity. *)
C9_RestoreOnCancelOrRefund ==
    [][\A o \in 1..Len(orders) :
          (/\ orders'[o].status \in {"CANCELLED", "REFUNDED"}
           /\ orders[o].status \notin {"CANCELLED", "REFUNDED"})
              => \A p \in Products :
                    stock'[p].quantity = stock[p].quantity + ItemQty(orders[o].items, p)
      ]_vars

\* a paid order of one unit of P1 and two of P2 was refunded and both rows
\* are back at their initial quantity
C9_Witness ==
    /\ Len(orders) = 1
    /\ orders[1].status = "REFUNDED"
    /\ orders[1].items = <<Item(P1, 1), Item(P2, 2)>>
    /\ restoredSum[P1] = 1 /\ restoredSum[P2] = 2
    /\ \A p \in Products : stock[p].quantity = initQty[p]

\* the units of product p in the line items of the orders that are
\* CANCELLED or REFUNDED
RECURSIVE ReturnedFrom(_, _)
ReturnedFrom(o, p) ==
    IF o > Len(orders) THEN 0
    ELSE (IF orders[o].status \in {"CANCELLED", "REFUNDED"}
          THEN ItemQty(orders[o].items, p) ELSE 0) + ReturnedFrom(o + 1, p)

RestoredOncePerOrder ==
    \A p \in Products : restoredSum[p] = ReturnedFrom(1, p)

NoSecondRestoringTransition ==
    [][\A o \in 1..Len(orders) :
          orders[o].status \in {"CANCELLED", "REFUNDED"}
              => orders'[o].status = orders[o].status
      ]_vars

(* C32: stock is restored at most once per order: over any interleaving
   of update_order_status, cancel_order and mark_order_paid calls on an
   order, two concurrent cancels of a PENDING order included, an order
   that is CANCELLED or REFUNDED keeps that status, so one transition into
   them commits, and the units restored are those of the line items of
   the cancelled and refunded orders, each counted once. *)
C32_RestoredAtMostOnce == []RestoredOncePerOrder /\ NoSecondRestoringTransition

\* two cancels of the PENDING order ran concurrently: one committed and
\* restored the items once, the other was rejected
C32_Witness ==
    /\ Len(orders) = 1 /\ orders[1].status = "CANCELLED"
    /\ \A p \in Products : restoredSum[p] = ItemQty(orders[1].items, p)
    /\ \A t \in OrderThreads :
         /\ oc[t].op = "update_order_status" /\ oc[t].new_status = "CANCELLED"
         /\ oc[t].pc = "done"
    /\ \E t \in OrderThreads : oc[t].result = "ok"
    /\ \E t \in OrderThreads : oc[t].result = "InvalidOrderStatus"

(* ------------------------------------------------------------------ *)
(* Specification of orders next to admin restocks: one worker places an *)
(* order of both products and serves update_order_status and            *)
(* mark_order_paid requests for it, while the other restocks the first  *)
(* product through restock_product.                                     *)
(* ------------------------------------------------------------------ *)
\* worker t is between two requests
WorkerFree(t) == oc[t].pc \in {"idle", "done"} /\ th[t].pc = "idle"

UnitsInit ==
    /\ OrderTablesInit
    /\ oc = [t \in OrderThreads |-> IdleOrderCall]
    /\ placeCalls = 0
    /\ coupon = NoCoupon
    /\ scn = Scenario({1}, {<<Item(P1, 1), Item(P2, 2)>>}, {""})
    /\ product = ProductsInit(TRUE)
    /\ OrderStockInit(MaxOrderStock, MaxOrderStock)
    /\ cacheStock = [p \in Products |-> NoKey]

OrderWorkers == {1}
Restockers == {2}

UnitsNext ==
    \/ \E t \in OrderWorkers : WorkerFree(t) /\ place_order_begin(t)
    \/ \E t \in OrderWorkers : check_order_rate_limit(t)
    \/ \E t \in OrderWorkers : place_order_item(t)
    \/ \E t \in OrderWorkers : place_order_item_done(t)
    \/ \E t \in OrderWorkers : place_order_totals(t)
    \/ \E t \in OrderWorkers : place_order_commit(t)
    \/ \E t \in OrderWorkers : WorkerFree(t) /\ update_order_status_begin(t)
    \/ \E t \in OrderWorkers : WorkerFree(t) /\ mark_order_paid_begin(t)
    \/ \E t \in OrderWorkers : update_order_status_lock(t)
    \/ \E t \in OrderWorkers : restore_order_stock_query(t)
    \/ \E t \in OrderWorkers : restore_order_stock_item(t)
    \/ \E t \in OrderWorkers : restore_order_stock_item_done(t)
    \/ \E t \in OrderWorkers : update_order_status_commit(t)
    \/ \E t \in OrderWorkers : mark_order_paid_lock(t)
    \/ \E t \in OrderWorkers : mark_order_paid_commit(t)
    \/ \E t \in OrderWorkers : ensure_stock_in_redis(t)
    \/ \E t \in OrderWorkers : sync_stock_read(t)
    \/ \E t \in OrderWorkers : sync_stock_set(t)
    \/ \E t \in OrderWorkers : decrease_stock_decr(t)
    \/ \E t \in OrderWorkers : decrease_stock_db_lock(t)
    \/ \E t \in OrderWorkers : decrease_stock_db_update(t)
    \/ \E t \in OrderWorkers : restore_stock_update(t)
    \/ \E t \in OrderWorkers : restore_stock_incr(t)
    \/ \E t \in Restockers : WorkerFree(t) /\ restock_product_begin(t)
    \/ \E t \in Restockers : restock_product_lock(t)
    \/ \E t \in Restockers : restock_product_update(t)
    \/ \E t \in Restockers : restock_product_on_commit(t)
    \/ \E t \in Restockers : call_return(t)

UnitsSpec == UnitsInit /\ [][UnitsNext]_vars

\* the units of product p held by the orders that are PENDING, PAID or SHIPPED
RECURSIVE HeldFrom(_, _)
HeldFrom(o, p) ==
    IF o > Len(orders) THEN 0
    ELSE (IF orders[o].status \in {"PENDING", "PAID", "SHIPPED"}
          THEN ItemQty(orders[o].items, p) ELSE 0) + HeldFrom(o + 1, p)

HeldUnits(p) == HeldFrom(1, p)

(* C31: units are conserved across orders: for every product, the
   committed quantity plus the line-item quantities of the product over
   the orders in PENDING, PAID or SHIPPED equals the initial quantity plus
   all restocks; cancelled and refunded orders hold no units. *)
C31_UnitsConserved ==
    \A p \in Products :
        stock[p].quantity + HeldUnits(p) = initQty[p] + restockedSum[p]

\* the order was paid and refunded while a restock was committed
C31_Witness ==
    /\ Len(orders) = 1 /\ orders[1].status = "REFUNDED"
    /\ restockedSum[P1] > 0
    /\ stock[P1].quantity = initQty[P1] + restockedSum[P1]
    /\ stock[P2].quantity = initQty[P2]

(* ------------------------------------------------------------------ *)
(* Specification of a cancellation or refund that meets a missing Stock *)
(* row: an order of one P1 and two P2 exists, both workers serve an     *)
(* update_order_status request for it, and an administrator may delete  *)
(* a Stock row at any moment.                                           *)
(* ------------------------------------------------------------------ *)
PlacedOrder(status) ==
    [user |-> 1, status |-> status,
     items |-> <<Item(P1, 1), Item(P2, 2)>>, applied_coupon |-> FALSE,
     total_amount |-> 300, discount_amount |-> 0]

RestoreInit ==
    /\ \E s0 \in {"PENDING", "PAID", "SHIPPED"} : orders = <<PlacedOrder(s0)>>
    /\ orderLock = <<NoOne>>
    /\ \E ns \in [OrderThreads -> Statuses] :
         oc = [t \in OrderThreads |-> [IdleOrderCall EXCEPT
                  !.op = "update_order_status", !.order_id = 1,
                  !.new_status = ns[t], !.pc = "us_lock"]]
    /\ \E k \in 2..MaxOrderStock :
         /\ stock = [p \in Products |-> Row(k - ItemQty(orders[1].items, p), 1)]
         /\ initQty = [p \in Products |-> k - ItemQty(orders[1].items, p)]
    /\ \E present \in BOOLEAN :
         cacheStock = [p \in Products |->
                          IF present THEN Key(stock[p].quantity) ELSE NoKey]
    /\ stockLock = [p \in Products |-> NoOne]
    /\ th = [t \in OrderThreads |-> IdleThread]
    /\ pend = [t \in OrderThreads |-> Clean]
    /\ calls = 0
    /\ restoredSum = [p \in Products |-> 0]
    /\ restockedSum = [p \in Products |-> 0]
    /\ decreasedSum = [p \in Products |-> 0]
    /\ cacheUp = TRUE
    /\ coupon = NoCoupon
    /\ couponLock = NoOne
    /\ userCoupon = [u \in Users |-> <<>>]
    /\ couponCache = NoKey
    /\ rateKey = {}
    /\ product = ProductsInit(TRUE)
    /\ placeCalls = 1
    /\ statusCalls = Cardinality(OrderThreads)
    /\ scn = Scenario({}, {}, {})
    /\ SlotQuiet

RestoreNext ==
    \/ \E t \in OrderThreads : update_order_status_lock(t)
    \/ \E t \in OrderThreads : restore_order_stock_query(t)
    \/ \E t \in OrderThreads : restore_order_stock_item(t)
    \/ \E t \in OrderThreads : restore_order_stock_item_done(t)
    \/ \E t \in OrderThreads : update_order_status_commit(t)
    \/ \E t \in OrderThreads : restore_stock_update(t)
    \/ \E t \in OrderThreads : restore_stock_incr(t)
    \/ \E t \in OrderThreads : sync_stock_read(t)
    \/ \E t \in OrderThreads : sync_stock_set(t)
    \/ \E p \in Products : stock_admin_delete(p)

RestoreSpec == RestoreInit /\ [][RestoreNext]_vars

(* C14: the status change and the stock restores of update_order_status
   are all-or-nothing: a call that ends with an exception (a restore that
   finds no Stock row, a rejected transition) changes neither the order nor
   any Stock row, and the committed order and Stock rows change only in the
   step that ends a call successfully (or when a row is deleted). *)
C14_StatusAndRestoresAtomic ==
    [][/\ \A t \in OrderThreads :
            (/\ oc[t].op = "update_order_status" /\ oc[t].pc # "done"
             /\ oc'[t].pc = "done" /\ oc'[t].result # "ok")
                => UNCHANGED <<orders, stock>>
       /\ (orders' # orders \/ \E p \in Products : stock'[p].exists /\ stock'[p] # stock[p])
            => \E t \in OrderThreads :
                  oc[t].pc = "commit" /\ oc'[t].pc = "done" /\ oc'[t].result = "ok"
      ]_vars

\* the refund had restored its first line inside the transaction when the
\* second line found no Stock row: the order is still PAID and the first
\* product's row is as it was
C14_Witness ==
    \E t \in OrderThreads : \E p \in Products :
        /\ oc[t].pc = "done" /\ oc[t].op = "update_order_status"
        /\ oc[t].new_status = "REFUNDED"
        /\ oc[t].result = "StockDoesNotExist"
        /\ oc[t].idx = 2
        /\ orders[1].status = "PAID"
        /\ stock[p] = Row(initQty[p], 1)
        /\ ~stock[oc[t].sorted[2].product_id].exists

(* ------------------------------------------------------------------ *)
(* Specification of the amounts of an order: one place_order call with  *)
(* the coupon, for 1..MaxOrderStock units of a product priced between 0 *)
(* and MaxPrice cents; the coupon is a percentage or a fixed amount,    *)
(* small, large or above the subtotal, with or without a minimum.       *)
(* ------------------------------------------------------------------ *)
DiscountValues == {0, 1, 3333, 5000, 10000, 15000, 100000}

DiscountInit ==
    /\ OrderTablesInit
    /\ scn = Scenario({1}, {<<Item(P1, q)>> : q \in 1..MaxOrderStock}, {couponCode})
    /\ \E dtype \in {"PERCENTAGE", "FIXED_AMOUNT"}, v \in DiscountValues, m \in {0, 2} :
         coupon = CouponRow(0, 0, dtype, v, m)
    /\ \E price \in 0..MaxPrice :
         product = [p \in Products |-> [is_active |-> TRUE, price |-> price]]
    /\ OrderStockInit(MaxOrderStock, 0)
    /\ cacheStock = [p \in Products |-> NoKey]
    /\ \E its \in scn.itemLists :
         oc = [t \in OrderThreads |->
                 IF t = 1
                 THEN [IdleOrderCall EXCEPT
                         !.op = "place_order", !.user = 1, !.items = its,
                         !.coupon_code = couponCode, !.pc = "rate"]
                 ELSE IdleOrderCall]
    /\ placeCalls = 1

DiscountNext ==
    \/ \E t \in OrderThreads : check_order_rate_limit(t)
    \/ \E t \in OrderThreads : validate_coupon(t)
    \/ \E t \in OrderThreads : validate_coupon_used(t)
    \/ \E t \in OrderThreads : place_order_item(t)
    \/ \E t \in OrderThreads : place_order_item_done(t)
    \/ \E t \in OrderThreads : place_order_totals(t)
    \/ \E t \in OrderThreads : apply_coupon_update(t)
    \/ \E t \in OrderThreads : apply_coupon_rest(t)
    \/ \E t \in OrderThreads : place_order_commit(t)
    \/ \E t \in OrderThreads : ensure_stock_in_redis(t)
    \/ \E t \in OrderThreads : sync_stock_read(t)
    \/ \E t \in OrderThreads : sync_stock_set(t)
    \/ \E t \in OrderThreads : decrease_stock_decr(t)
    \/ \E t \in OrderThreads : decrease_stock_db_lock(t)
    \/ \E t \in OrderThreads : decrease_stock_db_update(t)

DiscountSpec == DiscountInit /\ [][DiscountNext]_vars

(* C16: for every coupon and every subtotal >= min_purchase_amount,
   calculate_discount returns d with 0 <= d <= subtotal, so the
   total_amount place_order persists, subtotal - d, is never negative (and
   the persisted discount_amount lies between 0 and the subtotal). *)
DiscountComputed(t) ==
    /\ oc[t].op = "place_order"
    /\ oc[t].pc \in {"apply", "apply_rest", "commit"} \/ oc[t].result = "ok"

C16_DiscountWithinSubtotal ==
    /\ \A t \in OrderThreads :
         DiscountComputed(t) =>
            /\ oc[t].subtotal >= oc[t].coupon.min_purchase_amount
            /\ 0 <= oc[t].discount
            /\ oc[t].discount <= InFine(oc[t].subtotal)
            /\ oc[t].result = "ok" =>
                  /\ orders[oc[t].order_id].discount_amount <= oc[t].subtotal
                  /\ orders[oc[t].order_id].total_amount <= oc[t].subtotal
    /\ \A o \in 1..Len(orders) :
         orders[o].total_amount >= 0 /\ orders[o].discount_amount >= 0

\* a fixed discount of 1000.00 on a subtotal of a few cents: the discount
\* persisted is the subtotal and the total is 0
C16_Witness ==
    /\ oc[1].result = "ok"
    /\ oc[1].coupon.discount_type = "FIXED_AMOUNT"
    /\ oc[1].coupon.discount_value = 100000
    /\ oc[1].subtotal > 0
    /\ orders[1].discount_amount = oc[1].subtotal
    /\ orders[1].total_amount = 0

(* ------------------------------------------------------------------ *)
(* Specification of coupon validation: two validate_coupon calls, for   *)
(* any user and a known or unknown code, on a coupon that may be        *)
(* inactive, outside its validity window, unlimited or exhausted, with  *)
(* the quota entry of the cache absent, at 0 or stale, and a UserCoupon *)
(* row of each user absent, unused or used.                             *)
(* ------------------------------------------------------------------ *)
ValidateInit ==
    /\ orders = <<>>
    /\ orderLock = <<>>
    /\ couponLock = NoOne
    /\ rateKey = {}
    /\ statusCalls = 0
    /\ SlotQuiet
    /\ scn = Scenario(Users, {<<Item(P1, 1)>>}, {couponCode, "NOCODE"})
    /\ product = ProductsInit(TRUE)
    /\ OrderStockInit(MaxOrderStock, MaxOrderStock)
    /\ cacheStock = [p \in Products |-> NoKey]
    /\ \E a \in BOOLEAN : \E w \in {"before", "in", "after"} :
       \E l \in 0..MaxLimit : \E u \in 0..MaxLimit :
         coupon = [CouponRow(l, u, "FIXED_AMOUNT", 50, 0)
                     EXCEPT !.is_active = a, !.window = w]
    /\ couponCache \in {NoKey, Key(0), Key(MaxLimit)}
    /\ userCoupon \in [Users -> {<<>>, <<FALSE>>, <<TRUE>>}]
    /\ \E us \in [OrderThreads -> Users] :
       \E cs \in [OrderThreads -> scn.codes] :
         oc = [t \in OrderThreads |-> [IdleOrderCall EXCEPT
                  !.op = "place_order", !.user = us[t], !.items = <<Item(P1, 1)>>,
                  !.sorted = <<Item(P1, 1)>>,
                  !.coupon_code = cs[t], !.pc = "validate"]]
    /\ placeCalls = Cardinality(OrderThreads)

ValidateNext ==
    \/ \E t \in OrderThreads : validate_coupon(t)
    \/ \E t \in OrderThreads : validate_coupon_quota(t)
    \/ \E t \in OrderThreads : validate_coupon_quota_sync(t)
    \/ \E t \in OrderThreads : validate_coupon_used(t)

ValidateSpec == ValidateInit /\ [][ValidateNext]_vars

\* the rejection conditions of the four checks, on the committed rows and
\* the cache entry
NotFoundHolds(t) == oc[t].coupon_code # couponCode
ExpiredHolds == ~coupon.is_active \/ coupon.window \in {"before", "after"}
QuotaHolds ==
    /\ coupon.total_limit > 0
    /\ \/ couponCache.present /\ couponCache.val <= 0
       \/ coupon.used_count >= coupon.total_limit
AlreadyUsedHolds(t) == \E i \in 1..Len(userCoupon[oc[t].user]) : userCoupon[oc[t].user][i]

FirstRejection(t) ==
    IF NotFoundHolds(t) THEN "CouponNotFound"
    ELSE IF ExpiredHolds THEN "CouponExpired"
    ELSE IF QuotaHolds THEN "CouponQuotaExceeded"
    ELSE IF AlreadyUsedHolds(t) THEN "CouponAlreadyUsed"
    ELSE "none"

\* validate_coupon has returned the coupon: place_order goes on to its items
Validated(t) == oc[t].pc = "item"

ValidateOutcome ==
    \A t \in OrderThreads :
        /\ oc[t].pc = "done" => oc[t].result = FirstRejection(t)
        /\ Validated(t) => FirstRejection(t) = "none" /\ oc[t].coupon = coupon

(* C29: validate_coupon checks in the order CouponNotFound, CouponExpired
   (inactive, not yet valid or past valid_until), QuotaExceeded,
   CouponAlreadyUsed: the error raised is the first of these whose
   condition holds, the coupon is returned only when none holds, and no
   step of validate_coupon changes a durable row. *)
C29_ValidateOrder ==
    []ValidateOutcome /\ [][UNCHANGED <<DurableState, slotTable, slot>>]_vars

\* a call for an inactive, exhausted coupon the user has used ended with
\* CouponExpired, and a call for an unknown code with CouponNotFound
C29_Witness ==
    /\ ~coupon.is_active /\ QuotaHolds
    /\ \E t \in OrderThreads :
         /\ oc[t].pc = "done" /\ oc[t].result = "CouponExpired"
         /\ AlreadyUsedHolds(t)
    /\ \E t \in OrderThreads :
         oc[t].pc = "done" /\ oc[t].result = "CouponNotFound"

(* ------------------------------------------------------------------ *)
(* Specification of payment against cancellation: a PENDING order of    *)
(* one P1 and two P2 exists; one worker serves mark_order_paid and the  *)
(* other cancel_order for it, at the same time. The cache entries of    *)
(* the two products may be present or absent, and may expire.           *)
(* ------------------------------------------------------------------ *)
PaidCancelInit ==
    /\ orders = <<PlacedOrder("PENDING")>>
    /\ orderLock = <<NoOne>>
    /\ \E payer \in OrderThreads :
         oc = [t \in OrderThreads |->
                 IF t = payer
                 THEN [IdleOrderCall EXCEPT !.op = "mark_order_paid", !.order_id = 1,
                          !.new_status = "PAID", !.pc = "mp_lock"]
                 ELSE [IdleOrderCall EXCEPT !.op = "update_order_status", !.order_id = 1,
                          !.new_status = "CANCELLED", !.pc = "us_lock"]]
    /\ \E k \in 2..MaxOrderStock :
         /\ stock = [p \in Products |-> Row(k - ItemQty(orders[1].items, p), 1)]
         /\ initQty = [p \in Products |-> k - ItemQty(orders[1].items, p)]
    /\ \E present \in [Products -> BOOLEAN] :
         cacheStock = [p \in Products |->
                          IF present[p] THEN Key(stock[p].quantity) ELSE NoKey]
    /\ stockLock = [p \in Products |-> NoOne]
    /\ th = [t \in OrderThreads |-> IdleThread]
    /\ pend = [t \in OrderThreads |-> Clean]
    /\ calls = 0
    /\ restoredSum = [p \in Products |-> 0]
    /\ restockedSum = [p \in Products |-> 0]
    /\ decreasedSum = [p \in Products |-> 0]
    /\ cacheUp = TRUE
    /\ coupon = NoCoupon
    /\ couponLock = NoOne
    /\ userCoupon = [u \in Users |-> <<>>]
    /\ couponCache = NoKey
    /\ rateKey = {}
    /\ product = ProductsInit(TRUE)
    /\ placeCalls = 1
    /\ statusCalls = Cardinality(OrderThreads)
    /\ scn = Scenario({}, {}, {})
    /\ SlotQuiet

PaidCancelNext ==
    \/ \E t \in OrderThreads : mark_order_paid_lock(t)
    \/ \E t \in OrderThreads : mark_order_paid_commit(t)
    \/ \E t \in OrderThreads : update_order_status_lock(t)
    \/ \E t \in OrderThreads : restore_order_stock_query(t)
    \/ \E t \in OrderThreads : restore_order_stock_item(t)
    \/ \E t \in OrderThreads : restore_order_stock_item_done(t)
    \/ \E t \in OrderThreads : update_order_status_commit(t)
    \/ \E t \in OrderThreads : restore_stock_update(t)
    \/ \E t \in OrderThreads : restore_stock_incr(t)
    \/ \E t \in OrderThreads : sync_stock_read(t)
    \/ \E t \in OrderThreads : sync_stock_set(t)
    \/ \E p \in Products : cache_expire(p)

PaidCancelSpec == PaidCancelInit /\ [][PaidCancelNext]_vars

\* the units restored match the status of the order
StatusMatchesStock ==
    /\ orders[1].status \in {"PENDING", "PAID", "CANCELLED"}
    /\ \A p \in Products :
         /\ restoredSum[p] = IF orders[1].status = "CANCELLED"
                             THEN ItemQty(orders[1].items, p) ELSE 0
         /\ stock[p].quantity = initQty[p] + restoredSum[p]

(* C37: when mark_order_paid and cancel_order run concurrently on the
   same PENDING order, exactly one of them commits and the other fails
   with InvalidOrderStatusException; the order ends PAID with no stock
   restored or CANCELLED with the stock restored once, never a mix. *)
C37_PaidOrCancelled ==
    /\ StatusMatchesStock
    /\ AllAnswered =>
          /\ orders[1].status \in {"PAID", "CANCELLED"}
          /\ \E t1, t2 \in OrderThreads :
                /\ t1 # t2
                /\ oc[t1].result = "ok"
                /\ oc[t2].result = "InvalidOrderStatus"
                /\ orders[1].status =
                      IF oc[t1].op = "mark_order_paid" THEN "PAID" ELSE "CANCELLED"

\* the cancel waited for the payment's row lock and was rejected
C37_Witness ==
    /\ AllAnswered
    /\ orders[1].status = "PAID"
    /\ \E t \in OrderThreads :
         /\ oc[t].op = "update_order_status" /\ oc[t].new_status = "CANCELLED"
         /\ oc[t].result = "InvalidOrderStatus"
    /\ \A p \in Products : stock[p].quantity = initQty[p]

(* ------------------------------------------------------------------ *)
(* Specification of standalone calls that all use the cache, on an      *)
(* entry that starts absent or in step with the row and never expires   *)
(* ------------------------------------------------------------------ *)
CachedInit ==
    /\ \E k \in 0..MaxInitQty :
         /\ stock = StockRowsInit(k)
         /\ initQty = [p \in Products |-> IF p = P1 THEN k ELSE 0]
         /\ \E c \in {NoKey, Key(k)} :
              cacheStock = [p \in Products |-> IF p = P1 THEN c ELSE NoKey]
    /\ stockLock = [p \in Products |-> NoOne]
    /\ th = [t \in StockThreads |-> IdleThread]
    /\ pend = [t \in StockThreads |-> Clean]
    /\ calls = 0
    /\ restoredSum = [p \in Products |-> 0]
    /\ restockedSum = [p \in Products |-> 0]
    /\ decreasedSum = [p \in Products |-> 0]
    /\ cacheUp = TRUE
    /\ SlotQuiet
    /\ OrderQuiet

CachedNext ==
    \/ \E t \in StockThreads : decrease_stock_begin(t) /\ th'[t].use_redis
    \/ \E t \in StockThreads : ensure_stock_in_redis(t)
    \/ \E t \in StockThreads : sync_stock_read(t)
    \/ \E t \in StockThreads : sync_stock_set(t)
    \/ \E t \in StockThreads : decrease_stock_decr(t)
    \/ \E t \in StockThreads : decrease_stock_undo(t)
    \/ \E t \in StockThreads : decrease_stock_db_lock(t)
    \/ \E t \in StockThreads : decrease_stock_db_update(t)
    \/ \E t \in StockThreads : decrease_stock_rollback(t)
    \/ \E t \in StockThreads : restore_stock_begin(t) /\ th'[t].use_redis
    \/ \E t \in StockThreads : restore_stock_update(t)
    \/ \E t \in StockThreads : restore_stock_incr(t)
    \/ \E t \in StockThreads : call_return(t)

CachedSpec == CachedInit /\ [][CachedNext]_vars

\* units of p taken out of the cache entry by decreases that have passed
\* Step 1 and have not finished Step 2 yet
RECURSIVE PassedCacheFrom(_, _)
PassedCacheFrom(ts, p) ==
    IF ts = {} THEN 0
    ELSE LET t == CHOOSE x \in ts : TRUE
         IN (IF /\ th[t].op = "decrease" /\ th[t].product_id = p
                /\ th[t].redis_decremented /\ th[t].pc # "done"
             THEN th[t].quantity ELSE 0)
            + PassedCacheFrom(ts \ {t}, p)

(* C34: decrease(p, q) fails with InsufficientStock only if the committed
   durable quantity of p was below q at some moment during the call;
   cache decrements of attempts that are later rejected and undone never
   reject a request the durable store could satisfy. The committed
   quantity never falls below the initial quantity minus the decreases
   committed so far, so a rejected request for q units implies that this
   lower bound, even after taking off the units of the decreases still
   on their way to the row, is below q. *)
C34_RejectedOnlyWhenShort ==
    \A t \in StockThreads :
        (th[t].op = "decrease" /\ th[t].result = "InsufficientStock")
            => LET p == th[t].product_id
               IN initQty[p] - decreasedSum[p] - PassedCacheFrom(StockThreads, p)
                      < th[t].quantity

(* C36: in every quiescent state reached by standalone decrease and restore
   calls with the cache enabled (no call in flight, no key expiry), a
   present cache entry stock:{p} equals the durable quantity of p. *)
C36_QuiescentCacheInStep ==
    (\A t \in StockThreads : th[t].pc = "idle")
        => \A p \in Products :
              cacheStock[p].present => cacheStock[p].val = stock[p].quantity

(* ------------------------------------------------------------------ *)
(* Specification of a cancellation against a new order: a PENDING order *)
(* of one P1 and two P2 exists; one worker serves cancel_order for it   *)
(* while the other serves a place_order call that names both products.  *)
(* The cache entries start absent or in step with the rows, so no       *)
(* decrease passes the cache and then fails on the row.                 *)
(* ------------------------------------------------------------------ *)
CancelPlaceInit ==
    /\ orders = <<PlacedOrder("PENDING")>>
    /\ orderLock = <<NoOne>>
    /\ \E canceller \in OrderThreads, u \in Users, its \in TwoLines :
         oc = [t \in OrderThreads |->
                 IF t = canceller
                 THEN [IdleOrderCall EXCEPT !.op = "update_order_status", !.order_id = 1,
                          !.new_status = "CANCELLED", !.pc = "us_lock"]
                 ELSE [IdleOrderCall EXCEPT !.op = "place_order", !.user = u,
                          !.items = its, !.coupon_code = "", !.pc = "rate"]]
    /\ \E k \in 2..MaxOrderStock :
         /\ stock = [p \in Products |-> Row(k - ItemQty(orders[1].items, p), 1)]
         /\ initQty = [p \in Products |-> k - ItemQty(orders[1].items, p)]
    /\ \E present \in [Products -> BOOLEAN] :
         cacheStock = [p \in Products |->
                          IF present[p] THEN Key(stock[p].quantity) ELSE NoKey]
    /\ stockLock = [p \in Products |-> NoOne]
    /\ th = [t \in OrderThreads |-> IdleThread]
    /\ pend = [t \in OrderThreads |-> Clean]
    /\ calls = 0
    /\ restoredSum = [p \in Products |-> 0]
    /\ restockedSum = [p \in Products |-> 0]
    /\ decreasedSum = [p \in Products |-> 0]
    /\ cacheUp = TRUE
    /\ coupon = NoCoupon
    /\ couponLock = NoOne
    /\ userCoupon = [u \in Users |-> <<>>]
    /\ couponCache = NoKey
    /\ rateKey = {}
    /\ product = ProductsInit(TRUE)
    /\ placeCalls = 2
    /\ statusCalls = 1
    /\ scn = Scenario({}, {}, {})
    /\ SlotQuiet

CancelPlaceNext ==
    \/ \E t \in OrderThreads : check_order_rate_limit(t)
    \/ \E t \in OrderThreads : place_order_item(t)
    \/ \E t \in OrderThreads : place_order_item_done(t)
    \/ \E t \in OrderThreads : place_order_totals(t)
    \/ \E t \in OrderThreads : place_order_commit(t)
    \/ \E t \in OrderThreads : ensure_stock_in_redis(t)
    \/ \E t \in OrderThreads : sync_stock_read(t)
    \/ \E t \in OrderThreads : sync_stock_set(t)
    \/ \E t \in OrderThreads : decrease_stock_decr(t)
    \/ \E t \in OrderThreads : decrease_stock_undo(t)
    \/ \E t \in OrderThreads : decrease_stock_db_lock(t)
    \/ \E t \in OrderThreads : decrease_stock_db_update(t)
    \/ \E t \in OrderThreads : update_order_status_lock(t)
    \/ \E t \in OrderThreads : restore_order_stock_query(t)
    \/ \E t \in OrderThreads : restore_order_stock_item(t)
    \/ \E t \in OrderThreads : restore_order_stock_item_done(t)
    \/ \E t \in OrderThreads : update_order_status_commit(t)
    \/ \E t \in OrderThreads : restore_stock_update(t)
    \/ \E t \in OrderThreads : restore_stock_incr(t)

CancelPlaceSpec == CancelPlaceInit /\ [][CancelPlaceNext]_vars

\* call t is blocked on the row lock of p: at select_for_update of
\* _decrease_stock_db or at the UPDATE of restore_stock
AwaitsRowLock(t, p) ==
    /\ th[t].pc \in {"db_lock", "r_update"}
    /\ th[t].product_id = p
    /\ stockLock[p] \notin {NoOne, t}

RowLockCycle ==
    \E t1, t2 \in OrderThreads : \E p, q \in Products :
        /\ t1 # t2 /\ p # q
        /\ stockLock[p] = t1 /\ AwaitsRowLock(t2, p)
        /\ stockLock[q] = t2 /\ AwaitsRowLock(t1, q)

(* C35: concurrent cancel_order / update_order_status and place_order calls
   over overlapping sets of products never deadlock: no two calls each
   hold a stock row lock the other one waits for, and while a call is
   unanswered some call can take a step. *)
C35_CancelPlaceNoDeadlock ==
    /\ ~RowLockCycle
    /\ AllAnswered \/ ENABLED CancelPlaceNext

(* ------------------------------------------------------------------ *)
(* Specification of coupon usage over the life of orders: two           *)
(* place_order calls for one P1 each, with or without the coupon code;  *)
(* the orders they commit are then paid, cancelled or refunded by the   *)
(* first worker, while the second may still be placing its order.       *)
(* ------------------------------------------------------------------ *)
CouponLifeInit ==
    /\ OrderTablesInit
    /\ \E u0 \in 0..1 : coupon = CouponRow(MaxLimit + 2, u0, "FIXED_AMOUNT", 50, 0)
    /\ product = ProductsInit(TRUE)
    /\ OrderStockInit(MaxOrderStock, MaxOrderStock)
    /\ cacheStock = [p \in Products |-> NoKey]
    /\ \E code \in [OrderThreads -> {"", couponCode}] :
         oc = [t \in OrderThreads |-> [IdleOrderCall EXCEPT
                  !.op = "place_order", !.user = t, !.items = <<Item(P1, 1)>>,
                  !.coupon_code = code[t], !.pc = "rate"]]
    /\ placeCalls = Cardinality(OrderThreads)
    /\ scn = Scenario({}, {}, {})

CouponLifeNext ==
    \/ \E t \in OrderThreads : check_order_rate_limit(t)
    \/ \E t \in OrderThreads : validate_coupon(t)
    \/ \E t \in OrderThreads : validate_coupon_quota(t)
    \/ \E t \in OrderThreads : validate_coupon_used(t)
    \/ \E t \in OrderThreads : place_order_item(t)
    \/ \E t \in OrderThreads : place_order_item_done(t)
    \/ \E t \in OrderThreads : place_order_totals(t)
    \/ \E t \in OrderThreads : apply_coupon_update(t)
    \/ \E t \in OrderThreads : apply_coupon_rest(t)
    \/ \E t \in OrderThreads : apply_coupon_error(t)
    \/ \E t \in OrderThreads : place_order_commit(t)
    \/ \E t \in OrderThreads : ensure_stock_in_redis(t)
    \/ \E t \in OrderThreads : sync_stock_read(t)
    \/ \E t \in OrderThreads : sync_stock_set(t)
    \/ \E t \in OrderThreads : decrease_stock_decr(t)
    \/ \E t \in OrderThreads : decrease_stock_db_lock(t)
    \/ \E t \in OrderThreads : decrease_stock_db_update(t)
    \/ \E t \in OrderWorkers :
         update_order_status_begin(t) /\ oc'[t].new_status \in STATUSES_REQUIRING_STOCK_RESTORE
    \/ \E t \in OrderWorkers : mark_order_paid_begin(t)
    \/ \E t \in OrderThreads : update_order_status_lock(t)
    \/ \E t \in OrderThreads : restore_order_stock_query(t)
    \/ \E t \in OrderThreads : restore_order_stock_item(t)
    \/ \E t \in OrderThreads : restore_order_stock_item_done(t)
    \/ \E t \in OrderThreads : update_order_status_commit(t)
    \/ \E t \in OrderThreads : mark_order_paid_lock(t)
    \/ \E t \in OrderThreads : mark_order_paid_commit(t)
    \/ \E t \in OrderThreads : restore_stock_update(t)
    \/ \E t \in OrderThreads : restore_stock_incr(t)

CouponLifeSpec == CouponLifeInit /\ [][CouponLifeNext]_vars

\* used_count less the number of committed orders that carry the coupon
UsageBalance == coupon.used_count - Cardinality(AppliedOrders)

\* a step that commits a cancellation or a refund of order o
GivesUp(o) ==
    /\ o <= Len(orders)
    /\ orders'[o].status \in STATUSES_REQUIRING_STOCK_RESTORE
    /\ orders'[o].status # orders[o].status

(* C38: in every committed state a coupon's used_count equals its initial
   used_count plus the number of committed orders whose applied_coupon is
   that coupon, i.e. every step keeps the difference of the two; and a
   step that cancels or refunds an order leaves used_count and the
   UserCoupon rows as they are. *)
C38_UsageCounted ==
    /\ [][UsageBalance' = UsageBalance]_vars
    /\ [][(\E o \in 1..Len(orders') : GivesUp(o))
             => /\ coupon' = coupon
                /\ userCoupon' = userCoupon
                /\ AppliedOrders' = AppliedOrders]_vars

\* both orders carry the coupon, one was cancelled and the other refunded
C38_Witness ==
    /\ Cardinality(AppliedOrders) = 2
    /\ \E o1, o2 \in AppliedOrders :
         orders[o1].status = "CANCELLED" /\ orders[o2].status = "REFUNDED"
    /\ coupon.used_count >= 2
    /\ \E u \in Users : used_at_isnull_False(userCoupon[u])

====
